---- MODULE Spec2Model ----
(***************************************************************************)
(* A model of PythonDSA: the graph algorithms                              *)
(*   src/02_intermediate_data_structures/graphs.py                         *)
(*   src/02_intermediate_data_structures/minimum_spanning_trees.py         *)
(*   src/02_intermediate_data_structures/advanced_graph_algorithms.py      *)
(*   src/02_intermediate_data_structures/maximum_flow.py                   *)
(* and the structures                                                      *)
(*   src/02_intermediate_data_structures/heaps.py                          *)
(*   src/01_basic_data_structures/hash_tables.py                           *)
(*   src/02_intermediate_data_structures/binary_search_trees.py            *)
(*   src/01_basic_data_structures/linked_lists.py                          *)
(*   src/02_intermediate_data_structures/trees.py                          *)
(* Python dicts are modelled with their insertion order (a sequence of     *)
(* <<key, value>> pairs) wherever the code iterates over them, and         *)
(* defaultdicts with the key they create when a missing key is read.       *)
(***************************************************************************)
EXTENDS Integers, Sequences, FiniteSets, TLC

VARIABLES
    directed,        \* Graph.directed
    vertices,        \* Graph.vertices (a set)
    edges,           \* Graph.edges (sequence of <<from, to, weight>>)
    adj_list,        \* Graph.adj_list (defaultdict(list)): key -> sequence of <<neighbor, weight>>
    mf_vertices,     \* MaxFlow.vertices (the list snapshot), <<>> before construction
    residual_graph,  \* MaxFlow.residual_graph: key -> ordered dict neighbor -> capacity
    source,          \* argument of the running ford_fulkerson call
    sink,            \* argument of the running ford_fulkerson call
    max_flow,        \* local max_flow of ford_fulkerson
    flow_network,    \* local flow_network of ford_fulkerson
    pc,              \* "Build" | "Initialized" | "Augmenting" | "Terminated"
    augmentations,   \* how many times the running call went through lines 93-102
    prev,            \* <<what the previous ford_fulkerson call on this instance returned>>
    mst,             \* <<MST.vertices>> (the list snapshot), <<>> before construction
    aga,             \* <<AdvancedGraphAlgorithms.vertices>> (the list snapshot), <<>> before
    disjoint_set,    \* <<a DisjointSet [parent, rank]>>, <<>> before construction
    heap_type,       \* Heap.heap_type, None before a Heap is constructed
    heap,            \* Heap.heap (the list; heap[1] is Python's heap[0])
    heap_size,       \* Heap.size
    arr,             \* <<the array last given to build_heap, as it was given>>
    sorted_arr,      \* the values extract_top returned since the last insert or build_heap
    ht_size,         \* HashTable.size, 0 before a HashTable is constructed
    table,           \* HashTable.table: a sequence of buckets, each a sequence of <<key, value>>
    count,           \* HashTable.count
    reference,       \* the key -> value mapping the calls so far describe
    root,            \* BinarySearchTree.root: <<>> (None) or <<value, left, right>>
    ll_nodes,        \* the Node objects created so far, [data, next]; next = 0 is None
    ll_head,         \* LinkedList.head: the index of a Node in ll_nodes, 0 for None
    ll_size,         \* LinkedList.size
    ll_node,         \* <<what the caller's last search returned>>, <<>> before a search
    tree_root,       \* BinaryTree.root: <<>> (None) or <<value, left, right>>
    ret              \* <<what the last call of bfs/dfs/dijkstra/prim returned>>

graphVars == <<directed, vertices, edges, adj_list>>
flowVars == <<mf_vertices, residual_graph, source, sink, max_flow, flow_network, pc,
              augmentations, prev>>
dsVars == <<disjoint_set>>
heapVars == <<heap_type, heap, heap_size, arr, sorted_arr>>
hashVars == <<ht_size, table, count, reference>>
bstVars == <<root>>
listVars == <<ll_nodes, ll_head, ll_size, ll_node>>
treeVars == <<tree_root>>
\* the state of the structures that are not graphs
structVars == <<disjoint_set, heap_type, heap, heap_size, arr, sorted_arr, ht_size, table, count,
                reference, root, ll_nodes, ll_head, ll_size, ll_node, tree_root>>
\* the state of a graph and of the algorithm objects built on it
graphState == <<directed, vertices, edges, adj_list, mf_vertices, residual_graph, source, sink,
                max_flow, flow_network, pc, augmentations, prev, mst, aga>>
vars == <<directed, vertices, edges, adj_list, mf_vertices, residual_graph, source, sink,
          max_flow, flow_network, pc, augmentations, prev, mst, aga, ret,
          disjoint_set, heap_type, heap, heap_size, arr, sorted_arr, ht_size, table, count,
          reference, root, ll_nodes, ll_head, ll_size, ll_node, tree_root>>

-----------------------------------------------------------------------------
(* Bounds of the model *)

\* add_edge calls in a freely built graph (self-loops and parallel edges included)
MaxEdges == 2
\* weights / capacities of a freely built graph are 0..MaxWeight
MaxWeight == 1
\* the vertices a freely built graph draws from
Names == {"A", "B", "C"}
\* the vertex lists of a graph of at most MaxPermuted vertices are taken in every order
MaxPermuted == 6
\* a HashTable is constructed with size 1..MaxSize
MaxSize == 2
\* the values put in a Heap are 1..MaxValue
MaxValue == 3
\* a BinarySearchTree grows to MaxNodes nodes
MaxNodes == 4
\* a Heap grows to MaxHeap elements, and build_heap takes arrays of up to MaxHeap elements
MaxHeap == 4
\* the Node objects a LinkedList scenario creates, and the data they hold
MaxListNodes == 3
\* the nodes of a BinaryTree
MaxTreeNodes == 5
MaxData == 2
Weights == 0..MaxWeight

\* a network on which the shortest augmenting path must later be cancelled
\* through a synthetic reverse edge (B -> A)
CrossEdges ==
    << <<"S", "A", 1>>, <<"A", "B", 1>>, <<"B", "T", 1>>, <<"S", "C", 1>>,
       <<"C", "B", 1>>, <<"A", "D", 1>>, <<"D", "T", 1>> >>

-----------------------------------------------------------------------------
(* Python values *)

None == "None"
Infinity == -1

\* TLC evaluates the argument of an operator when it is first needed, so a loop
\* that hands its accumulated value on without reading it leaves a chain of
\* pending evaluations as long as the loop. Evaluated(x) is TRUE and has x
\* evaluated where it stands.
Evaluated(x) == x = x

\* Python's order on the vertex names (str comparison), used by heapq on tuples
VertexOrder == <<"A", "B", "C", "D", "E", "F", "G", "H", "I", "J", "S", "T">>
Rank(v) == CHOOSE i \in DOMAIN VertexOrder : VertexOrder[i] = v

\* list(a_set): any order
RECURSIVE Perms(_)
Perms(S) ==
    IF S = {} THEN {<<>>}
    ELSE UNION {{<<x>> \o p : p \in Perms(S \ {x})} : x \in S}

\* the orders list(a_set) is taken in: every order of a set of at most
\* MaxPermuted elements; of a larger set, every choice of the first two
\* elements, followed by the others by name, ascending or descending
RECURSIVE SortedSeq(_)
SortedSeq(S) ==
    IF S = {} THEN <<>>
    ELSE LET m == CHOOSE x \in S : \A y \in S : Rank(x) <= Rank(y)
         IN  <<m>> \o SortedSeq(S \ {m})
Reversed(q) == [i \in DOMAIN q |-> q[Len(q) + 1 - i]]
Orders(S) ==
    IF Cardinality(S) <= MaxPermuted THEN Perms(S)
    ELSE UNION {{<<p[1], p[2]>> \o SortedSeq(S \ {p[1], p[2]}),
                 <<p[1], p[2]>> \o Reversed(SortedSeq(S \ {p[1], p[2]}))} :
                   p \in {q \in S \X S : q[1] # q[2]}}

\* ordered dict as a sequence of <<key, value>>
DKeys(d) == {d[i][1] : i \in DOMAIN d}
DHas(d, k) == k \in DKeys(d)
DIdx(d, k) == CHOOSE i \in DOMAIN d : d[i][1] = k
DGet(d, k) == d[DIdx(d, k)][2]
DSet(d, k, v) == IF DHas(d, k) THEN [d EXCEPT ![DIdx(d, k)] = <<k, v>>] ELSE Append(d, <<k, v>>)

\* defaultdict: reading a missing key stores the default under it
Touch(m, k, dflt) == IF k \in DOMAIN m THEN m ELSE m @@ (k :> dflt)
RECURSIVE TouchAll(_, _, _)
TouchAll(m, ks, dflt) ==
    IF Evaluated(m) /\ ks = <<>> THEN m ELSE TouchAll(Touch(m, Head(ks), dflt), Tail(ks), dflt)

EmptyMap == [k \in {} |-> <<>>]

-----------------------------------------------------------------------------
(* graphs.py: Graph *)

\* Graph.add_edge on the graph g = [directed, vertices, edges, adj_list]
add_edge(g, from_vertex, to_vertex, weight) ==
    LET a1 == Touch(g.adj_list, from_vertex, <<>>)
        a2 == [a1 EXCEPT ![from_vertex] = Append(@, <<to_vertex, weight>>)]
        a3 == Touch(a2, to_vertex, <<>>)
        a4 == [a3 EXCEPT ![to_vertex] = Append(@, <<from_vertex, weight>>)]
    IN  [directed |-> g.directed,
         vertices |-> g.vertices \cup {from_vertex, to_vertex},
         edges    |-> Append(g.edges, <<from_vertex, to_vertex, weight>>),
         adj_list |-> IF g.directed THEN a2 ELSE a4]

\* for from_vertex, to_vertex, weight in edges: graph.add_edge(...)
RECURSIVE add_edges(_, _)
add_edges(g, es) ==
    IF Evaluated(g) /\ es = <<>> THEN g
    ELSE add_edges(add_edge(g, es[1][1], es[1][2], es[1][3]), Tail(es))

TheGraph == [directed |-> directed, vertices |-> vertices, edges |-> edges, adj_list |-> adj_list]

\* the edge list of main() in graphs.py
graph_edges ==
    << <<"A", "B", 4>>, <<"A", "C", 2>>, <<"B", "C", 1>>, <<"B", "D", 5>>,
       <<"C", "D", 8>>, <<"C", "E", 10>>, <<"D", "E", 2>>, <<"E", "D", 7>> >>

\* a queue that takes the discovered vertex at its front
QueuePush(queue, neighbor) == <<neighbor>> \o queue

\* queue.append(neighbor) of bfs
QueueAppend(queue, neighbor) == Append(queue, neighbor)

\* for neighbor, _ in self.adj_list[vertex]: if neighbor not in visited: ...
RECURSIVE BfsNeighbors(_, _, _)
BfsNeighbors(nbrs, visited, queue) ==
    IF nbrs = <<>> THEN [visited |-> visited, queue |-> queue]
    ELSE IF nbrs[1][1] \notin visited
         THEN BfsNeighbors(Tail(nbrs), visited \cup {nbrs[1][1]}, QueueAppend(queue, nbrs[1][1]))
         ELSE BfsNeighbors(Tail(nbrs), visited, queue)

RECURSIVE BfsLoop(_, _, _, _)
BfsLoop(adj, queue, visited, bfs_order) ==
    IF queue = <<>> THEN [result |-> bfs_order, adj_list |-> adj]
    ELSE LET vertex == Head(queue)
             a == Touch(adj, vertex, <<>>)
             n == BfsNeighbors(a[vertex], visited, Tail(queue))
         IN  BfsLoop(a, n.queue, n.visited, Append(bfs_order, vertex))

\* a bfs without the test that the start vertex is in the graph
BfsUnchecked(g, start_vertex) ==
    BfsLoop(g.adj_list, <<start_vertex>>, {start_vertex}, <<>>)

\* a bfs that does not mark the start vertex as visited
BfsStartUnmarked(g, start_vertex) ==
    IF start_vertex \notin g.vertices THEN [result |-> <<>>, adj_list |-> g.adj_list]
    ELSE BfsLoop(g.adj_list, <<start_vertex>>, {}, <<>>)

\* Graph.bfs: the order returned, and adj_list as the reads leave it
bfs(g, start_vertex) ==
    IF start_vertex \notin g.vertices THEN [result |-> <<>>, adj_list |-> g.adj_list]
    ELSE BfsLoop(g.adj_list, <<start_vertex>>, {start_vertex}, <<>>)

RECURSIVE dfs_recursive(_, _)
RECURSIVE DfsNeighbors(_, _)
\* st = [visited, result, adj_list]
dfs_recursive(st, vertex) ==
    LET a == Touch(st.adj_list, vertex, <<>>)
    IN  DfsNeighbors([visited |-> st.visited \cup {vertex},
                      result |-> Append(st.result, vertex),
                      adj_list |-> a], a[vertex])
DfsNeighbors(st, nbrs) ==
    IF nbrs = <<>> THEN st
    ELSE IF nbrs[1][1] \notin st.visited
         THEN DfsNeighbors(dfs_recursive(st, nbrs[1][1]), Tail(nbrs))
         ELSE DfsNeighbors(st, Tail(nbrs))

\* Graph.dfs
dfs(g, start_vertex) ==
    IF start_vertex \notin g.vertices THEN [result |-> <<>>, adj_list |-> g.adj_list]
    ELSE LET st == dfs_recursive([visited |-> {}, result |-> <<>>, adj_list |-> g.adj_list],
                                 start_vertex)
         IN  [result |-> st.result, adj_list |-> st.adj_list]

\* Python's order on tuples, on tuples of numbers
RECURSIVE TupleLess(_, _)
TupleLess(a, b) ==
    IF a = <<>> \/ b = <<>> THEN a = <<>> /\ b # <<>>
    ELSE IF a[1] # b[1] THEN a[1] < b[1] ELSE TupleLess(Tail(a), Tail(b))

\* heapq.heappop: the index of the least entry of a heap whose entries have the
\* keys given (equal entries are the same tuple, so which of them is immaterial)
HeapTop(keys) ==
    CHOOSE i \in DOMAIN keys :
        /\ \A j \in DOMAIN keys : ~TupleLess(keys[j], keys[i])
        /\ \A j \in 1..(i - 1) : TupleLess(keys[i], keys[j])
Without(q, i) == SubSeq(q, 1, i - 1) \o SubSeq(q, i + 1, Len(q))

\* the key of a (distance, vertex) entry
DistKey(e) == <<e[1], Rank(e[2])>>
\* a heap key that leaves the weight out
EdgeKeyNoWeight(e) == <<Rank(e[2]), Rank(e[3])>>

\* the key of a (weight, from_vertex, to_vertex) entry
EdgeKey(e) == <<e[1], Rank(e[2]), Rank(e[3])>>

\* a stale test that also drops the entries that are current
StaleOrCurrent(current_distance, recorded) ==
    recorded # Infinity /\ current_distance >= recorded

\* a relaxation test that only accepts the first distance found for a vertex
FirstFound(distance, recorded) == recorded = Infinity

\* current_distance > distances[current_vertex]
Stale(current_distance, recorded) == recorded # Infinity /\ current_distance > recorded
\* distance < distances[neighbor]
Shorter(distance, recorded) == recorded = Infinity \/ distance < recorded

\* a path update that extends the neighbor's own old path
PathOfNeighbor(paths, current_vertex, neighbor) == Append(paths[neighbor], neighbor)

\* paths[current_vertex] + [neighbor]
PathThrough(paths, current_vertex, neighbor) == Append(paths[current_vertex], neighbor)

\* a relaxation loop that takes the weight of the last edge for the distance
RECURSIVE RelaxEdgeOnly(_, _, _, _)
RelaxEdgeOnly(st, nbrs, current_distance, current_vertex) ==
    IF nbrs = <<>> THEN st
    ELSE LET neighbor == nbrs[1][1]
             distance == nbrs[1][2]
         IN  IF Shorter(distance, st.distances[neighbor])
             THEN RelaxEdgeOnly([distances |-> [st.distances EXCEPT ![neighbor] = distance],
                                 paths |-> [st.paths EXCEPT
                                               ![neighbor] = PathThrough(st.paths, current_vertex,
                                                                         neighbor)],
                                 heap |-> Append(st.heap, <<distance, neighbor>>)],
                                Tail(nbrs), current_distance, current_vertex)
             ELSE RelaxEdgeOnly(st, Tail(nbrs), current_distance, current_vertex)

\* the relaxation loop over the neighbors of current_vertex; st = [distances, paths, heap]
RECURSIVE Relax(_, _, _, _)
Relax(st, nbrs, current_distance, current_vertex) ==
    IF nbrs = <<>> THEN st
    ELSE LET neighbor == nbrs[1][1]
             distance == current_distance + nbrs[1][2]
         IN  IF Shorter(distance, st.distances[neighbor])
             THEN Relax([distances |-> [st.distances EXCEPT ![neighbor] = distance],
                         paths |-> [st.paths EXCEPT
                                       ![neighbor] = PathThrough(st.paths, current_vertex,
                                                                 neighbor)],
                         heap |-> Append(st.heap, <<distance, neighbor>>)],
                        Tail(nbrs), current_distance, current_vertex)
             ELSE Relax(st, Tail(nbrs), current_distance, current_vertex)

RECURSIVE DijkstraLoop(_, _)
DijkstraLoop(st, adj) ==
    IF st.heap = <<>>
    THEN [tuple |-> TRUE, distances |-> st.distances, paths |-> st.paths, adj_list |-> adj]
    ELSE LET i == HeapTop([k \in DOMAIN st.heap |-> DistKey(st.heap[k])])
             current_distance == st.heap[i][1]
             current_vertex == st.heap[i][2]
             popped == [st EXCEPT !.heap = Without(st.heap, i)]
             a == Touch(adj, current_vertex, <<>>)
         IN  IF Stale(current_distance, st.distances[current_vertex])
             THEN DijkstraLoop(popped, adj)
             ELSE DijkstraLoop(Relax(popped, a[current_vertex], current_distance,
                                     current_vertex), a)

\* a dijkstra that returns a tuple of two empty mappings for a start vertex that
\* is not in the graph
DijkstraAlwaysTuple(g, start_vertex) ==
    IF start_vertex \notin g.vertices
    THEN [tuple |-> TRUE, distances |-> EmptyMap, paths |-> EmptyMap, adj_list |-> g.adj_list]
    ELSE DijkstraLoop(
             [distances |-> [v \in g.vertices |-> IF v = start_vertex THEN 0 ELSE Infinity],
              paths |-> [v \in g.vertices |-> IF v = start_vertex THEN <<start_vertex>> ELSE <<>>],
              heap |-> << <<0, start_vertex>> >>],
             g.adj_list)

\* Graph.dijkstra: {} for a start vertex that is not in the graph, else the
\* tuple (distances, paths)
dijkstra(g, start_vertex) ==
    IF start_vertex \notin g.vertices
    THEN [tuple |-> FALSE, distances |-> EmptyMap, paths |-> EmptyMap, adj_list |-> g.adj_list]
    ELSE DijkstraLoop(
             [distances |-> [v \in g.vertices |-> IF v = start_vertex THEN 0 ELSE Infinity],
              paths |-> [v \in g.vertices |-> IF v = start_vertex THEN <<start_vertex>> ELSE <<>>],
              heap |-> << <<0, start_vertex>> >>],
             g.adj_list)

-----------------------------------------------------------------------------
(* minimum_spanning_trees.py *)

\* the edge list of main() in minimum_spanning_trees.py (an undirected graph)
mst_graph_edges ==
    << <<"A", "B", 4>>, <<"A", "C", 2>>, <<"B", "C", 1>>, <<"B", "D", 5>>, <<"C", "D", 8>>,
       <<"C", "E", 10>>, <<"D", "E", 2>>, <<"E", "F", 5>>, <<"D", "F", 6>>, <<"B", "F", 2>> >>

\* DisjointSet(vertices): ds = [parent, rank]
DisjointSet(vs) ==
    [parent |-> [v \in {vs[i] : i \in DOMAIN vs} |-> v],
     rank   |-> [v \in {vs[i] : i \in DOMAIN vs} |-> 0]]

\* DisjointSet.find with its path compression: the root, and the set as find leaves it
RECURSIVE find(_, _)
find(ds, vertex) ==
    IF ds.parent[vertex] # vertex
    THEN LET r == find(ds, ds.parent[vertex])
         IN  [root |-> r.root, ds |-> [r.ds EXCEPT !.parent[vertex] = r.root]]
    ELSE [root |-> vertex, ds |-> ds]

\* a union that, for roots of equal rank, raises the rank and links nothing
UnionRankOnly(ds, vertex1, vertex2) ==
    LET f1 == find(ds, vertex1)
        f2 == find(f1.ds, vertex2)
        root1 == f1.root
        root2 == f2.root
        d == f2.ds
    IN  IF root1 = root2 THEN d
        ELSE IF d.rank[root1] < d.rank[root2] THEN [d EXCEPT !.parent[root1] = root2]
        ELSE IF d.rank[root1] > d.rank[root2] THEN [d EXCEPT !.parent[root2] = root1]
        ELSE [d EXCEPT !.rank[root1] = @ + 1]

\* DisjointSet.union
union(ds, vertex1, vertex2) ==
    LET f1 == find(ds, vertex1)
        f2 == find(f1.ds, vertex2)
        root1 == f1.root
        root2 == f2.root
        d == f2.ds
    IN  IF root1 = root2 THEN d
        ELSE IF d.rank[root1] < d.rank[root2] THEN [d EXCEPT !.parent[root1] = root2]
        ELSE IF d.rank[root1] > d.rank[root2] THEN [d EXCEPT !.parent[root2] = root1]
        ELSE [d EXCEPT !.parent[root2] = root1, !.rank[root1] = @ + 1]

\* an edge list left in insertion order
Unsorted(es) == es

\* sorted(self.edges, key=lambda x: x[2]): a stable sort by weight
RECURSIVE InsertByWeight(_, _)
InsertByWeight(sorted, e) ==
    IF sorted = <<>> THEN <<e>>
    ELSE IF e[3] < sorted[1][3] THEN <<e>> \o sorted
    ELSE <<sorted[1]>> \o InsertByWeight(Tail(sorted), e)
RECURSIVE SortedFrom(_, _)
SortedFrom(sorted, es) ==
    IF es = <<>> THEN sorted ELSE SortedFrom(InsertByWeight(sorted, es[1]), Tail(es))
sorted_edges(es) == SortedFrom(<<>>, es)

\* a cycle test that only rejects the edges from a vertex to itself
EndsDiffer(root1, root2, from_vertex, to_vertex) == from_vertex # to_vertex

\* ds.find(from_vertex) != ds.find(to_vertex)
RootsDiffer(root1, root2, from_vertex, to_vertex) == root1 # root2

\* self.parent[vertex] of find raises KeyError for a vertex the set was not
\* built with
HasKey(ds, vertex) == vertex \in DOMAIN ds.parent

\* the for loop of kruskal; st = [raised, ds, mst_edges, total_weight]
RECURSIVE KruskalLoop(_, _)
KruskalLoop(st, es) ==
    IF es = <<>> THEN st
    ELSE IF ~HasKey(st.ds, es[1][1]) \/ ~HasKey(st.ds, es[1][2])
    THEN [st EXCEPT !.raised = TRUE]
    ELSE LET from_vertex == es[1][1]
             to_vertex == es[1][2]
             weight == es[1][3]
             f1 == find(st.ds, from_vertex)
             f2 == find(f1.ds, to_vertex)
         IN  IF RootsDiffer(f1.root, f2.root, from_vertex, to_vertex)
             THEN KruskalLoop([raised |-> FALSE,
                               ds |-> union(f2.ds, from_vertex, to_vertex),
                               mst_edges |-> Append(st.mst_edges,
                                                    <<from_vertex, to_vertex, weight>>),
                               total_weight |-> st.total_weight + weight], Tail(es))
             ELSE KruskalLoop([st EXCEPT !.ds = f2.ds], Tail(es))

\* MST.kruskal on the instance whose vertex list is vs and whose edge list is es;
\* raised: the call ended in KeyError and returned nothing (mst_edges and
\* total_weight are then the locals at the raise)
kruskal(vs, es) ==
    LET st == KruskalLoop([raised |-> FALSE, ds |-> DisjointSet(vs), mst_edges |-> <<>>,
                           total_weight |-> 0],
                          sorted_edges(es))
    IN  [raised |-> st.raised, mst_edges |-> st.mst_edges, total_weight |-> st.total_weight]

\* a push loop that stops after the first neighbor it pushes
PushEdgesFirst(entries, from_vertex, nbrs, skip) ==
    IF nbrs = <<>> THEN entries
    ELSE Append(entries, <<nbrs[1][2], from_vertex, nbrs[1][1]>>)

\* heappush of (weight, from_vertex, neighbor) for the neighbors not in skip
RECURSIVE PushEdges(_, _, _, _)
PushEdges(entries, from_vertex, nbrs, skip) ==
    IF nbrs = <<>> THEN entries
    ELSE IF nbrs[1][1] \in skip
         THEN PushEdges(entries, from_vertex, Tail(nbrs), skip)
         ELSE PushEdges(Append(entries, <<nbrs[1][2], from_vertex, nbrs[1][1]>>),
                        from_vertex, Tail(nbrs), skip)

\* the while loop of prim; st = [visited, mst_edges, total_weight, heap, adj_list]
RECURSIVE PrimLoop(_, _)
PrimLoop(st, n) ==
    IF st.heap = <<>> \/ ~(Cardinality(st.visited) < n) THEN st
    ELSE LET i == HeapTop([k \in DOMAIN st.heap |-> EdgeKey(st.heap[k])])
             weight == st.heap[i][1]
             from_vertex == st.heap[i][2]
             to_vertex == st.heap[i][3]
             rest == Without(st.heap, i)
             a == Touch(st.adj_list, to_vertex, <<>>)
             seen == st.visited \cup {to_vertex}
         IN  IF to_vertex \notin st.visited
             THEN PrimLoop([visited |-> seen,
                            mst_edges |-> Append(st.mst_edges, <<from_vertex, to_vertex, weight>>),
                            total_weight |-> st.total_weight + weight,
                            heap |-> PushEdges(rest, to_vertex, a[to_vertex], seen),
                            adj_list |-> a], n)
             ELSE PrimLoop([st EXCEPT !.heap = rest], n)

\* MST.prim on the instance whose vertex list is vs, over the graph's adj_list;
\* start_vertex may be None
prim(vs, adj, start_vertex) ==
    IF vs = <<>> THEN [mst_edges |-> <<>>, total_weight |-> 0, adj_list |-> adj]
    ELSE LET start == IF start_vertex = None THEN vs[1] ELSE start_vertex
             a == Touch(adj, start, <<>>)
             st == PrimLoop([visited |-> {start}, mst_edges |-> <<>>, total_weight |-> 0,
                             heap |-> PushEdges(<<>>, start, a[start], {}),
                             adj_list |-> a], Len(vs))
         IN  [mst_edges |-> st.mst_edges, total_weight |-> st.total_weight,
              adj_list |-> st.adj_list]

-----------------------------------------------------------------------------
(* advanced_graph_algorithms.py *)

\* a reversal that returns the adjacency list as it is
NotReversed(vs, adj) == adj

\* reversed_adj[neighbor].append((vertex, weight)) for the entries of one vertex
RECURSIVE ReverseEntries(_, _, _)
ReverseEntries(reversed_adj, vertex, nbrs) ==
    IF Evaluated(reversed_adj) /\ nbrs = <<>> THEN reversed_adj
    ELSE LET r == Touch(reversed_adj, nbrs[1][1], <<>>)
         IN  ReverseEntries([r EXCEPT ![nbrs[1][1]] = Append(@, <<vertex, nbrs[1][2]>>)],
                            vertex, Tail(nbrs))

RECURSIVE ReverseFrom(_, _, _)
ReverseFrom(reversed_adj, vs, adj) ==
    IF Evaluated(reversed_adj) /\ vs = <<>> THEN reversed_adj
    ELSE ReverseFrom(ReverseEntries(reversed_adj, Head(vs), Touch(adj, Head(vs), <<>>)[Head(vs)]),
                     Tail(vs), adj)

\* AdvancedGraphAlgorithms._reverse_graph
_reverse_graph(vs, adj) == ReverseFrom(EmptyMap, vs, adj)

\* _dfs_first_pass; st = [visited, order, adj_list]
RECURSIVE _dfs_first_pass(_, _)
RECURSIVE FirstPassNeighbors(_, _)
\* a first pass that records a vertex when it is entered, not when it is finished
FirstPassPreorder(st, vertex) ==
    LET a == Touch(st.adj_list, vertex, <<>>)
    IN  FirstPassNeighbors([st EXCEPT !.visited = @ \cup {vertex}, !.adj_list = a,
                                      !.order = Append(@, vertex)],
                           a[vertex])

_dfs_first_pass(st, vertex) ==
    LET a == Touch(st.adj_list, vertex, <<>>)
        done == FirstPassNeighbors([st EXCEPT !.visited = @ \cup {vertex}, !.adj_list = a],
                                   a[vertex])
    IN  [done EXCEPT !.order = Append(@, vertex)]
FirstPassNeighbors(st, nbrs) ==
    IF nbrs = <<>> THEN st
    ELSE IF nbrs[1][1] \notin st.visited
         THEN FirstPassNeighbors(_dfs_first_pass(st, nbrs[1][1]), Tail(nbrs))
         ELSE FirstPassNeighbors(st, Tail(nbrs))

\* _dfs_second_pass; st = [visited, component]
RECURSIVE _dfs_second_pass(_, _, _)
RECURSIVE SecondPassNeighbors(_, _, _)
_dfs_second_pass(st, vertex, reversed_adj) ==
    SecondPassNeighbors([visited |-> st.visited \cup {vertex},
                         component |-> Append(st.component, vertex)],
                        Touch(reversed_adj, vertex, <<>>)[vertex], reversed_adj)
SecondPassNeighbors(st, nbrs, reversed_adj) ==
    IF nbrs = <<>> THEN st
    ELSE IF nbrs[1][1] \notin st.visited
         THEN SecondPassNeighbors(_dfs_second_pass(st, nbrs[1][1], reversed_adj),
                                  Tail(nbrs), reversed_adj)
         ELSE SecondPassNeighbors(st, Tail(nbrs), reversed_adj)

\* for vertex in self.vertices: if vertex not in visited: self._dfs_first_pass(...)
RECURSIVE FirstPass(_, _)
FirstPass(st, vs) ==
    IF vs = <<>> THEN st
    ELSE IF Head(vs) \notin st.visited
         THEN FirstPass(_dfs_first_pass(st, Head(vs)), Tail(vs))
         ELSE FirstPass(st, Tail(vs))

\* a test that takes every vertex of the order for unvisited
AlwaysUnvisited(vertex, visited) == TRUE

\* if vertex not in visited (second loop of find_scc)
Unvisited(vertex, visited) == vertex \notin visited

\* for vertex in reversed(order): ...; todo is the part of order still to come,
\* taken from its end; st = [visited, scc_list]
RECURSIVE SecondPass(_, _, _)
SecondPass(st, todo, reversed_adj) ==
    IF todo = <<>> THEN st
    ELSE LET vertex == todo[Len(todo)]
             rest == SubSeq(todo, 1, Len(todo) - 1)
             c == _dfs_second_pass([visited |-> st.visited, component |-> <<>>],
                                   vertex, reversed_adj)
         IN  IF Unvisited(vertex, st.visited)
             THEN SecondPass([visited |-> c.visited,
                              scc_list |-> Append(st.scc_list, c.component)],
                             rest, reversed_adj)
             ELSE SecondPass(st, rest, reversed_adj)

\* AdvancedGraphAlgorithms.find_scc on the instance whose vertex list is vs
find_scc(vs, adj) ==
    LET first == FirstPass([visited |-> {}, order |-> <<>>, adj_list |-> adj], vs)
        reversed_adj == _reverse_graph(vs, first.adj_list)
        second == SecondPass([visited |-> {}, scc_list |-> <<>>], first.order, reversed_adj)
    IN  [result |-> second.scc_list, adj_list |-> first.adj_list]

\* an order that grows at its right end
AppendRight(order, vertex) == Append(order, vertex)

\* order.appendleft(vertex)
AppendLeft(order, vertex) == <<vertex>> \o order

\* a test that never finds the neighbor on the current path
NeverOnPath(neighbor, temp_visited) == FALSE

\* elif neighbor in temp_visited
OnPath(neighbor, temp_visited) == neighbor \in temp_visited

\* _dfs_topological; st = [visited, temp_visited, order, adj_list, cycle], where
\* cycle is its return value
RECURSIVE _dfs_topological(_, _)
RECURSIVE TopologicalNeighbors(_, _)
_dfs_topological(st, vertex) ==
    LET a == Touch(st.adj_list, vertex, <<>>)
        r == TopologicalNeighbors([st EXCEPT !.visited = @ \cup {vertex},
                                             !.temp_visited = @ \cup {vertex},
                                             !.adj_list = a],
                                  a[vertex])
    IN  IF r.cycle THEN r
        ELSE [r EXCEPT !.temp_visited = @ \ {vertex}, !.order = AppendLeft(@, vertex)]
TopologicalNeighbors(st, nbrs) ==
    IF nbrs = <<>> THEN st
    ELSE IF nbrs[1][1] \notin st.visited
         THEN LET r == _dfs_topological(st, nbrs[1][1])
              IN  IF r.cycle THEN r ELSE TopologicalNeighbors(r, Tail(nbrs))
         ELSE IF OnPath(nbrs[1][1], st.temp_visited) THEN [st EXCEPT !.cycle = TRUE]
         ELSE TopologicalNeighbors(st, Tail(nbrs))

\* the loop of topological_sort over self.vertices
RECURSIVE TopologicalLoop(_, _)
TopologicalLoop(st, vs) ==
    IF vs = <<>> THEN st
    ELSE IF Head(vs) \notin st.visited
         THEN LET r == _dfs_topological(st, Head(vs))
              IN  IF r.cycle THEN r ELSE TopologicalLoop(r, Tail(vs))
         ELSE TopologicalLoop(st, Tail(vs))

\* AdvancedGraphAlgorithms.topological_sort: none tells that None is returned
topological_sort(vs, adj) ==
    LET r == TopologicalLoop([visited |-> {}, temp_visited |-> {}, order |-> <<>>,
                              adj_list |-> adj, cycle |-> FALSE], vs)
    IN  [none |-> r.cycle, result |-> IF r.cycle THEN <<>> ELSE r.order,
         adj_list |-> r.adj_list]

\* the edge lists of main() in advanced_graph_algorithms.py
scc_edges1 ==
    << <<"A", "B", 1>>, <<"B", "C", 1>>, <<"C", "A", 1>>, <<"B", "D", 1>>, <<"D", "E", 1>>,
       <<"E", "F", 1>>, <<"F", "D", 1>>, <<"G", "F", 1>>, <<"G", "H", 1>>, <<"H", "I", 1>>,
       <<"I", "J", 1>>, <<"J", "G", 1>> >>
dag_edges2 ==
    << <<"A", "B", 1>>, <<"A", "C", 1>>, <<"B", "D", 1>>, <<"C", "D", 1>>, <<"D", "E", 1>>,
       <<"E", "F", 1>>, <<"G", "E", 1>> >>
cycle_edges3 == << <<"A", "B", 1>>, <<"B", "C", 1>>, <<"C", "A", 1>> >>

-----------------------------------------------------------------------------
(* maximum_flow.py *)

edges1 ==
    << <<"S", "A", 10>>, <<"S", "B", 8>>, <<"A", "C", 4>>, <<"A", "D", 2>>,
       <<"B", "C", 9>>, <<"B", "D", 9>>, <<"C", "T", 10>>, <<"D", "T", 10>> >>

edges2 ==
    << <<"S", "A", 16>>, <<"S", "B", 13>>, <<"A", "B", 10>>, <<"A", "C", 12>>,
       <<"B", "A", 4>>, <<"B", "C", 14>>, <<"B", "D", 9>>, <<"C", "D", 7>>,
       <<"C", "T", 20>>, <<"D", "C", 6>>, <<"D", "T", 4>> >>

\* self.residual_graph[u][v] = c
RSet(res, u, v, c) ==
    LET r == Touch(res, u, <<>>) IN [r EXCEPT ![u] = DSet(@, v, c)]

\* the body of the inner loop of initialize_residual_graph, for one adjacency entry
ResidualEdge(res, vertex, neighbor, capacity) ==
    LET r1 == RSet(res, vertex, neighbor, capacity)
        r2 == IF neighbor \notin DOMAIN r1 THEN r1 @@ (neighbor :> <<>>) ELSE r1
    IN  RSet(r2, neighbor, vertex, 0)

RECURSIVE ResidualOfVertex(_, _, _)
ResidualOfVertex(res, vertex, nbrs) ==
    IF Evaluated(res) /\ nbrs = <<>> THEN res
    ELSE ResidualOfVertex(ResidualEdge(res, vertex, nbrs[1][1], nbrs[1][2]), vertex, Tail(nbrs))

\* MaxFlow.initialize_residual_graph: the residual graph for the vertex list vs
RECURSIVE initialize_residual_graph(_, _, _)
initialize_residual_graph(res, adj, vs) ==
    IF Evaluated(res) /\ vs = <<>> THEN res
    ELSE initialize_residual_graph(
             ResidualOfVertex(res, Head(vs), Touch(adj, Head(vs), <<>>)[Head(vs)]),
             adj, Tail(vs))

\* a bottleneck that is the capacity of the last edge only
MinCapLastEdge(a, b) == b

MinCap(a, b) == IF a = Infinity THEN b ELSE IF a < b THEN a ELSE b

RECURSIVE PathTo(_, _)
PathTo(parent, v) == IF v = None THEN <<>> ELSE Append(PathTo(parent, parent[v]), v)

\* return None, 0 (found tells the two shapes of result apart)
NoPath == [found |-> FALSE, path |-> <<>>, min_capacity |-> 0]

\* an edge test that lets saturated edges through
UsableWhenZero(capacity) == capacity >= 0

\* the edge test of bfs_augmenting_path
Usable(capacity) == capacity > 0

\* a queue that takes the new vertex at its front
EnqueueFront(queue, neighbor) == <<neighbor>> \o queue

\* queue.append(neighbor)
Enqueue(queue, neighbor) == Append(queue, neighbor)

RECURSIVE BfsQueue(_, _, _, _, _)
RECURSIVE BfsItems(_, _, _, _, _, _, _)
\* while queue: current = queue.popleft(); for neighbor, capacity in ...items()
BfsQueue(res, snk, parent, min_capacity, queue) ==
    IF queue = <<>> THEN NoPath
    ELSE BfsItems(res, snk, parent, min_capacity, Tail(queue), Head(queue),
                  Touch(res, Head(queue), <<>>)[Head(queue)])
BfsItems(res, snk, parent, min_capacity, queue, current, items) ==
    IF Evaluated(<<min_capacity, queue>>) /\ items = <<>> THEN BfsQueue(res, snk, parent, min_capacity, queue)
    ELSE LET neighbor == items[1][1]
             capacity == items[1][2]
         IN  IF Usable(capacity) /\ neighbor \notin DOMAIN parent
             THEN LET p == parent @@ (neighbor :> current)
                      m == min_capacity @@ (neighbor :> MinCap(min_capacity[current], capacity))
                  IN  IF neighbor = snk
                      THEN [found |-> TRUE, path |-> PathTo(p, snk), min_capacity |-> m[snk]]
                      ELSE BfsItems(res, snk, p, m, Enqueue(queue, neighbor), current, Tail(items))
             ELSE BfsItems(res, snk, parent, min_capacity, queue, current, Tail(items))

\* MaxFlow.bfs_augmenting_path
bfs_augmenting_path(res, src, snk) ==
    BfsQueue(res, snk, (src :> None), (src :> Infinity), <<src>>)

\* lines 97-98 for one edge of the path
ResidualUpdate(res, u, v, m) ==
    LET r1 == RSet(res, u, v, DGet(res[u], v) - m)
    IN  RSet(r1, v, u, DGet(r1[v], u) + m)

\* line 100 for one edge of the path
FlowUpdate(fn, u, v, m) == RSet(fn, u, v, DGet(fn[u], v) + m)

RECURSIVE AugmentResidual(_, _, _)
AugmentResidual(res, path, m) ==
    IF Evaluated(res) /\ Len(path) < 2 THEN res
    ELSE AugmentResidual(ResidualUpdate(res, path[1], path[2], m), Tail(path), m)

\* an update loop that stops one edge short of the sink
RECURSIVE AugmentFlowShort(_, _, _)
AugmentFlowShort(fn, path, m) ==
    IF Evaluated(fn) /\ Len(path) < 3 THEN fn
    ELSE AugmentFlowShort(FlowUpdate(fn, path[1], path[2], m), Tail(path), m)

RECURSIVE AugmentFlow(_, _, _)
AugmentFlow(fn, path, m) ==
    IF Evaluated(fn) /\ Len(path) < 2 THEN fn
    ELSE AugmentFlow(FlowUpdate(fn, path[1], path[2], m), Tail(path), m)

\* flow_network[vertex][neighbor] = 0 for every neighbor in residual_graph[vertex]
RECURSIVE ZeroRow(_, _, _)
ZeroRow(fn, vertex, items) ==
    IF Evaluated(fn) /\ items = <<>> THEN fn
    ELSE ZeroRow(RSet(fn, vertex, items[1][1], 0), vertex, Tail(items))

RECURSIVE ZeroFlow(_, _, _)
ZeroFlow(fn, res, vs) ==
    IF Evaluated(fn) /\ vs = <<>> THEN fn
    ELSE ZeroFlow(ZeroRow(fn, Head(vs), Touch(res, Head(vs), <<>>)[Head(vs)]), res, Tail(vs))

-----------------------------------------------------------------------------
(* heaps.py: Heap; heap[i + 1] is Python's self.heap[i] *)

\* Heap._parent
_parent(i) == (i - 1) \div 2

\* Heap._left_child
_left_child(i) == 2 * i + 1

\* Heap._right_child
_right_child(i) == 2 * i + 2

\* Heap._swap
_swap(h, i, j) == [h EXCEPT ![i + 1] = h[j + 1], ![j + 1] = h[i + 1]]

\* the comparison of _heapify_up and _heapify_down: a goes above b
Above(type, a, b) == IF type = "min" THEN a < b ELSE a > b

\* an insert that leaves the new value at the end
NoHeapifyUp(h, type, i) == h

\* Heap._heapify_up
RECURSIVE _heapify_up(_, _, _)
_heapify_up(h, type, i) ==
    LET parent == _parent(i)
    IN  IF i > 0 /\ Above(type, h[i + 1], h[parent + 1])
        THEN _heapify_up(_swap(h, i, parent), type, parent)
        ELSE h

\* Heap._heapify_down
RECURSIVE _heapify_down(_, _, _, _)
_heapify_down(h, type, size, i) ==
    LET left == _left_child(i)
        right == _right_child(i)
        first == IF left < size /\ Above(type, h[left + 1], h[i + 1]) THEN left ELSE i
        smallest_or_largest ==
            IF right < size /\ Above(type, h[right + 1], h[first + 1]) THEN right ELSE first
    IN  IF smallest_or_largest # i
        THEN _heapify_down(_swap(h, i, smallest_or_largest), type, size, smallest_or_largest)
        ELSE h

\* Heap.insert: the list after append and _heapify_up
insert(h, type, size, value) == _heapify_up(Append(h, value), type, (size + 1) - 1)

\* Heap.extract_top on a heap that is not empty: the value returned and the list left
extract_top(h, type, size) ==
    IF size = 1 THEN [result |-> h[Len(h)], heap |-> SubSeq(h, 1, Len(h) - 1)]
    ELSE [result |-> h[1],
          heap |-> _heapify_down([SubSeq(h, 1, Len(h) - 1) EXCEPT ![1] = h[Len(h)]],
                                 type, size - 1, 0)]

\* a loop that heapifies one index only
BuildLoopOnce(h, type, size, i) ==
    IF i < 0 THEN h ELSE _heapify_down(h, type, size, i)

\* the loop of build_heap: for i in range(size // 2 - 1, -1, -1)
RECURSIVE BuildLoop(_, _, _, _)
BuildLoop(h, type, size, i) ==
    IF i < 0 THEN h ELSE BuildLoop(_heapify_down(h, type, size, i), type, size, i - 1)

\* Heap.build_heap
build_heap(a, type) == BuildLoop(a, type, Len(a), Len(a) \div 2 - 1)

\* values of main() in heaps.py
values == <<5, 3, 7, 1, 4, 6, 2>>

-----------------------------------------------------------------------------
(* hash_tables.py: HashTable; t = [size, table, count], table[i + 1] is Python's table[i] *)

\* keys: an int n is <<"int", <<n>>>>, a str is <<"str", the code points of its characters>>
IntKey(n) == <<"int", <<n>>>>
StrKey(codes) == <<"str", codes>>

\* sum(ord(c) for c in str(key))
RECURSIVE SumOrd(_)
SumOrd(codes) == IF codes = <<>> THEN 0 ELSE codes[1] + SumOrd(Tail(codes))

\* HashTable._hash_function
_hash_function(key, size) ==
    IF key[1] = "int" THEN key[2][1] % size ELSE SumOrd(key[2]) % size

\* the position of key in a bucket, 0 when it is not there
RECURSIVE IndexIn(_, _, _)
IndexIn(bucket, key, i) ==
    IF i > Len(bucket) THEN 0
    ELSE IF bucket[i][1] = key THEN i
    ELSE IndexIn(bucket, key, i + 1)

\* a pop that takes the first entry of the bucket
PopFirst(bucket, i) == Tail(bucket)

\* bucket.pop(i)
Pop(bucket, i) == SubSeq(bucket, 1, i - 1) \o SubSeq(bucket, i + 1, Len(bucket))

\* [[] for _ in range(size)]
RECURSIVE EmptyTable(_)
EmptyTable(size) == IF size = 0 THEN <<>> ELSE Append(EmptyTable(size - 1), <<>>)

\* a load factor test that lets the table fill up: count / size > 1
OverloadedWhenFull(cnt, size) == cnt > size

\* the load factor test of insert: count / size > 0.7
Overloaded(cnt, size) == 10 * cnt > 7 * size

\* the entries of a table, bucket after bucket
RECURSIVE Flatten(_)
Flatten(tbl) == IF tbl = <<>> THEN <<>> ELSE tbl[1] \o Flatten(Tail(tbl))

\* HashTable.insert and HashTable._resize, which calls insert for every old entry
RECURSIVE ht_insert(_, _, _)
RECURSIVE Reinsert(_, _)
Reinsert(t, entries) ==
    IF entries = <<>> THEN t
    ELSE Reinsert(ht_insert(t, entries[1][1], entries[1][2]), Tail(entries))

_resize(t) ==
    Reinsert([size |-> t.size * 2, table |-> EmptyTable(t.size * 2), count |-> 0],
             Flatten(t.table))

ht_insert(t, key, value) ==
    LET hash_value == _hash_function(key, t.size)
        bucket == t.table[hash_value + 1]
        i == IndexIn(bucket, key, 1)
    IN  IF i # 0
        THEN [t EXCEPT !.table[hash_value + 1][i] = <<key, value>>]
        ELSE LET added == [t EXCEPT !.table[hash_value + 1] = Append(bucket, <<key, value>>),
                                    !.count = t.count + 1]
             IN  IF Overloaded(added.count, added.size) THEN _resize(added) ELSE added

\* HashTable.get
get(t, key) ==
    LET bucket == t.table[_hash_function(key, t.size) + 1]
        i == IndexIn(bucket, key, 1)
    IN  IF i # 0 THEN bucket[i][2] ELSE None

\* HashTable.delete: the value returned and the table left
delete(t, key) ==
    LET hash_value == _hash_function(key, t.size)
        bucket == t.table[hash_value + 1]
        i == IndexIn(bucket, key, 1)
    IN  IF i # 0
        THEN [result |-> TRUE,
              t |-> [t EXCEPT !.table[hash_value + 1] = Pop(bucket, i), !.count = t.count - 1]]
        ELSE [result |-> FALSE, t |-> t]

\* the default size of HashTable.__init__
DefaultSize == 10

-----------------------------------------------------------------------------
(* binary_search_trees.py: a node is <<value, left, right>>, None is <<>> *)

\* BSTNode(value)
BSTNode(value) == <<value, <<>>, <<>>>>

\* BinarySearchTree._insert_recursive: node as the call leaves it
RECURSIVE _insert_recursive(_, _)
_insert_recursive(node, value) ==
    IF value < node[1]
    THEN IF node[2] = <<>>
         THEN <<node[1], BSTNode(value), node[3]>>
         ELSE <<node[1], _insert_recursive(node[2], value), node[3]>>
    ELSE IF node[3] = <<>>
         THEN <<node[1], node[2], BSTNode(value)>>
         ELSE <<node[1], node[2], _insert_recursive(node[3], value)>>

\* BinarySearchTree.insert: the root it leaves
bst_insert(r, value) ==
    IF r = <<>> THEN BSTNode(value) ELSE _insert_recursive(r, value)

\* BinarySearchTree._search_recursive: the node found, <<>> for None
RECURSIVE _search_recursive(_, _)
_search_recursive(node, value) ==
    IF node = <<>> \/ node[1] = value THEN node
    ELSE IF value < node[1] THEN _search_recursive(node[2], value)
    ELSE _search_recursive(node[3], value)

\* BinarySearchTree.search
bst_search(r, value) == _search_recursive(r, value)

\* the value at the top of a subtree
TopValue(node) == node[1]

\* BinarySearchTree._min_value
RECURSIVE _min_value(_)
_min_value(node) == IF node[2] # <<>> THEN _min_value(node[2]) ELSE node[1]

\* BinarySearchTree._delete_recursive
RECURSIVE _delete_recursive(_, _)
_delete_recursive(node, value) ==
    IF node = <<>> THEN node
    ELSE IF value < node[1] THEN <<node[1], _delete_recursive(node[2], value), node[3]>>
    ELSE IF value > node[1] THEN <<node[1], node[2], _delete_recursive(node[3], value)>>
    ELSE IF node[2] = <<>> THEN node[3]
    ELSE IF node[3] = <<>> THEN node[2]
    ELSE LET successor == _min_value(node[3])
         IN  <<successor, node[2], _delete_recursive(node[3], successor)>>

\* a bound of is_valid_bst: <<>> is float('-inf') as min_val and float('inf') as
\* max_val, <<n>> is n; min_val < value < max_val
Within(min_val, value, max_val) ==
    /\ min_val = <<>> \/ min_val[1] < value
    /\ max_val = <<>> \/ value < max_val[1]

\* BinarySearchTree.is_valid_bst(node, min_val, max_val) on the tree of root r:
\* a node that is None is replaced by the root, in the first call and in every
\* recursive call on a missing child
RECURSIVE is_valid_bst(_, _, _, _)
is_valid_bst(r, node, min_val, max_val) ==
    LET n == IF node = <<>> THEN r ELSE node
    IN  IF n = <<>> THEN TRUE
        ELSE IF ~Within(min_val, n[1], max_val) THEN FALSE
        ELSE /\ is_valid_bst(r, n[2], min_val, <<n[1]>>)
             /\ is_valid_bst(r, n[3], <<n[1]>>, max_val)

\* BinarySearchTree.inorder_traversal(node) on the tree of root r: the values
\* printed, and whether the call ends in RecursionError. A node that is None is
\* replaced by the root in every call; active holds the arguments of the calls
\* in progress, and a call whose argument is among them never returns.
RECURSIVE inorder_traversal(_, _, _)
inorder_traversal(r, node, active) ==
    IF node \in active THEN [raised |-> TRUE, out |-> <<>>]
    ELSE LET n == IF node = <<>> THEN r ELSE node
         IN  IF n = <<>> THEN [raised |-> FALSE, out |-> <<>>]
             ELSE LET left == inorder_traversal(r, n[2], active \cup {node})
                  IN  IF left.raised THEN left
                      ELSE LET right == inorder_traversal(r, n[3], active \cup {node})
                           IN  [raised |-> right.raised,
                                out |-> left.out \o <<n[1]>> \o right.out]

\* max(left_height, right_height)
Max(a, b) == IF a > b THEN a ELSE b

\* BinarySearchTree.get_height(node) on the tree of root r: <<height>>, or <<>>
\* when the call ends in RecursionError (active as in inorder_traversal)
RECURSIVE get_height(_, _, _)
get_height(r, node, active) ==
    IF node \in active THEN <<>>
    ELSE LET n == IF node = <<>> THEN r ELSE node
         IN  IF n = <<>> THEN <<-1>>
             ELSE LET left_height == get_height(r, n[2], active \cup {node})
                  IN  IF left_height = <<>> THEN <<>>
                      ELSE LET right_height == get_height(r, n[3], active \cup {node})
                           IN  IF right_height = <<>> THEN <<>>
                               ELSE <<Max(left_height[1], right_height[1]) + 1>>

\* the number of nodes of a tree
RECURSIVE Nodes(_)
Nodes(node) == IF node = <<>> THEN 0 ELSE 1 + Nodes(node[2]) + Nodes(node[3])

-----------------------------------------------------------------------------
(* linked_lists.py: l = [nodes, head, size]; a Node is its index in nodes, *)
(* which keeps every Node created, unlinked ones too; None is 0            *)

\* Node(data)
Node(data) == [data |-> data, next |-> 0]

\* LinkedList.insert_at_beginning
insert_at_beginning(l, data) ==
    [nodes |-> Append(l.nodes, [Node(data) EXCEPT !.next = l.head]),
     head  |-> Len(l.nodes) + 1,
     size  |-> l.size + 1]

\* while current.next: current = current.next
RECURSIVE LastNode(_, _)
LastNode(nodes, current) ==
    IF nodes[current].next # 0 THEN LastNode(nodes, nodes[current].next) ELSE current

\* LinkedList.insert_at_end
insert_at_end(l, data) ==
    LET new_node == Len(l.nodes) + 1
        created == Append(l.nodes, Node(data))
    IN  IF l.head = 0
        THEN [nodes |-> created, head |-> new_node, size |-> l.size + 1]
        ELSE [nodes |-> [created EXCEPT ![LastNode(l.nodes, l.head)].next = new_node],
              head  |-> l.head,
              size  |-> l.size + 1]

\* LinkedList.insert_after
insert_after(l, prev_node, data) ==
    IF prev_node = 0 THEN l
    ELSE LET new_node == Len(l.nodes) + 1
             created == Append(l.nodes, [Node(data) EXCEPT !.next = l.nodes[prev_node].next])
         IN  [nodes |-> [created EXCEPT ![prev_node].next = new_node],
              head  |-> l.head,
              size  |-> l.size + 1]

\* the while loop of delete_node
RECURSIVE DeleteLoop(_, _, _)
DeleteLoop(l, current, key) ==
    LET next == l.nodes[current].next
    IN  IF next = 0 THEN l
        ELSE IF l.nodes[next].data = key
        THEN [l EXCEPT !.nodes[current].next = l.nodes[next].next, !.size = l.size - 1]
        ELSE DeleteLoop(l, next, key)

\* LinkedList.delete_node
delete_node(l, key) ==
    IF l.head = 0 THEN l
    ELSE IF l.nodes[l.head].data = key
    THEN [l EXCEPT !.head = l.nodes[l.head].next, !.size = l.size - 1]
    ELSE DeleteLoop(l, l.head, key)

\* LinkedList.search: the Node found, 0 (None) when there is none
RECURSIVE SearchLoop(_, _, _)
SearchLoop(nodes, current, key) ==
    IF current = 0 THEN 0
    ELSE IF nodes[current].data = key THEN current
    ELSE SearchLoop(nodes, nodes[current].next, key)
search(l, key) == SearchLoop(l.nodes, l.head, key)

\* LinkedList.get_size
get_size(l) == l.size

-----------------------------------------------------------------------------
(* trees.py: BinaryTree; a node is <<value, left, right>>, None is <<>>; a *)
(* node of the tree is named by its path from the root: 2 left, 3 right    *)

\* TreeNode(value)
TreeNode(value) == <<value, <<>>, <<>>>>

\* the node of the tree t at the end of a path
RECURSIVE NodeAt(_, _)
NodeAt(t, path) == IF path = <<>> THEN t ELSE NodeAt(t[path[1]], Tail(path))

\* node.left = child or node.right = child for the node before the last step of
\* the path
RECURSIVE Attach(_, _, _)
Attach(t, path, child) ==
    IF path = <<>> THEN child
    ELSE [t EXCEPT ![path[1]] = Attach(t[path[1]], Tail(path), child)]

\* the while loop of BinaryTree.insert; queue holds the paths of the nodes
RECURSIVE InsertLoop(_, _, _)
InsertLoop(t, queue, value) ==
    LET path == Head(queue)
        node == NodeAt(t, path)
    IN  IF node[2] = <<>> THEN Attach(t, Append(path, 2), TreeNode(value))
        ELSE IF node[3] = <<>> THEN Attach(t, Append(path, 3), TreeNode(value))
        ELSE InsertLoop(t, Tail(queue) \o <<Append(path, 2), Append(path, 3)>>, value)

\* BinaryTree.insert: the root it leaves
tree_insert(t, value) ==
    IF t = <<>> THEN TreeNode(value) ELSE InsertLoop(t, <<<<>>>>, value)

\* BinaryTree.height(node) on the tree of root r: <<the height>>, or <<>> when
\* the call ends in RecursionError. A node that is None is replaced by the root
\* in every call; active holds the arguments of the calls in progress, and a
\* call whose argument is among them never returns.
RECURSIVE height(_, _, _)
height(r, node, active) ==
    IF node \in active THEN <<>>
    ELSE LET n == IF node = <<>> THEN r ELSE node
         IN  IF n = <<>> THEN <<-1>>
             ELSE LET left_height == height(r, n[2], active \cup {node})
                      right_height == height(r, n[3], active \cup {node})
                  IN  IF left_height = <<>> \/ right_height = <<>> THEN <<>>
                      ELSE <<Max(left_height[1], right_height[1]) + 1>>

\* BinaryTree.count_nodes(node), likewise
RECURSIVE count_nodes(_, _, _)
count_nodes(r, node, active) ==
    IF node \in active THEN <<>>
    ELSE LET n == IF node = <<>> THEN r ELSE node
         IN  IF n = <<>> THEN <<0>>
             ELSE LET left == count_nodes(r, n[2], active \cup {node})
                      right == count_nodes(r, n[3], active \cup {node})
                  IN  IF left = <<>> \/ right = <<>> THEN <<>>
                      ELSE <<1 + left[1] + right[1]>>

-----------------------------------------------------------------------------
(* Actions *)

Init ==
    /\ directed \in BOOLEAN
    /\ vertices = {}
    /\ edges = <<>>
    /\ adj_list = EmptyMap
    /\ mf_vertices = <<>>
    /\ residual_graph = EmptyMap
    /\ source = None
    /\ sink = None
    /\ max_flow = 0
    /\ flow_network = EmptyMap
    /\ pc = "Build"
    /\ augmentations = 0
    /\ prev = <<>>
    /\ mst = <<>>
    /\ aga = <<>>
    /\ ret = <<>>
    /\ disjoint_set = <<>>
    /\ heap_type = None
    /\ heap = <<>>
    /\ heap_size = 0
    /\ arr = <<>>
    /\ sorted_arr = <<>>
    /\ ht_size = 0
    /\ table = <<>>
    /\ count = 0
    /\ reference = EmptyMap
    /\ root = <<>>
    /\ ll_nodes = <<>>
    /\ ll_head = 0
    /\ ll_size = 0
    /\ ll_node = <<>>
    /\ tree_root = <<>>

Idle == pc = "Build" /\ mst = <<>> /\ aga = <<>> /\ ret = <<>>

\* Graph.add_vertex(vertex)
AddVertex(vertex) ==
    /\ Idle
    /\ edges = <<>>
    /\ vertex \notin vertices
    /\ vertices' = vertices \cup {vertex}
    /\ UNCHANGED <<directed, edges, adj_list, flowVars, mst, aga, ret, structVars>>

\* Graph.add_edge(from_vertex, to_vertex, weight)
AddEdge(from_vertex, to_vertex, weight) ==
    /\ Idle
    /\ Len(edges) < MaxEdges
    /\ LET g == add_edge(TheGraph, from_vertex, to_vertex, weight)
       IN  /\ vertices' = g.vertices
           /\ edges' = g.edges
           /\ adj_list' = g.adj_list
    /\ UNCHANGED <<directed, flowVars, mst, aga, ret, structVars>>

\* Graph.bfs(start_vertex)
Bfs(start_vertex) ==
    /\ Idle
    /\ LET r == bfs(TheGraph, start_vertex)
       IN  /\ ret' = <<[op |-> "bfs", start |-> start_vertex, result |-> r.result]>>
           /\ adj_list' = r.adj_list
    /\ UNCHANGED <<directed, vertices, edges, flowVars, mst, aga, structVars>>

\* Graph.dfs(start_vertex)
Dfs(start_vertex) ==
    /\ Idle
    /\ LET r == dfs(TheGraph, start_vertex)
       IN  /\ ret' = <<[op |-> "dfs", start |-> start_vertex, result |-> r.result]>>
           /\ adj_list' = r.adj_list
    /\ UNCHANGED <<directed, vertices, edges, flowVars, mst, aga, structVars>>

\* Graph.dijkstra(start_vertex)
Dijkstra(start_vertex) ==
    /\ Idle
    /\ LET r == dijkstra(TheGraph, start_vertex)
       IN  /\ ret' = <<[op |-> "dijkstra", start |-> start_vertex, tuple |-> r.tuple,
                        distances |-> r.distances, paths |-> r.paths]>>
           /\ adj_list' = r.adj_list
    /\ UNCHANGED <<directed, vertices, edges, flowVars, mst, aga, structVars>>

\* MST(graph): get_vertices() lists the vertex set in an arbitrary order
MstInit(vs) ==
    /\ mst' = <<vs>>
    /\ UNCHANGED <<graphVars, flowVars, aga, ret, structVars>>

\* MST.kruskal()
Kruskal ==
    /\ mst # <<>>
    /\ ret = <<>>
    /\ LET r == kruskal(mst[1], edges)
       IN  ret' = <<[op |-> "kruskal", start |-> None, raised |-> r.raised,
                     mst_edges |-> r.mst_edges, total_weight |-> r.total_weight]>>
    /\ UNCHANGED <<graphVars, flowVars, mst, aga, structVars>>

\* Graph.add_edge(from_vertex, to_vertex, weight) by the owner of the graph
\* after MST(graph) was constructed and before an algorithm is called on it:
\* MST.edges is graph.edges itself, MST.vertices the list taken at construction
AddEdgeLater(from_vertex, to_vertex, weight) ==
    /\ pc = "Build"
    /\ mst # <<>>
    /\ aga = <<>>
    /\ ret = <<>>
    /\ Len(edges) < MaxEdges
    /\ LET g == add_edge(TheGraph, from_vertex, to_vertex, weight)
       IN  /\ vertices' = g.vertices
           /\ edges' = g.edges
           /\ adj_list' = g.adj_list
    /\ UNCHANGED <<directed, flowVars, mst, aga, ret, structVars>>

\* MST.prim(start_vertex), alone or after kruskal() as in main()
Prim(start_vertex) ==
    /\ mst # <<>>
    /\ ret = <<>> \/ (Len(ret) = 1 /\ ret[1].op = "kruskal")
    /\ LET r == prim(mst[1], adj_list, start_vertex)
       IN  /\ ret' = Append(ret, [op |-> "prim", start |-> start_vertex,
                                  mst_edges |-> r.mst_edges,
                                  total_weight |-> r.total_weight])
           /\ adj_list' = r.adj_list
    /\ UNCHANGED <<directed, vertices, edges, flowVars, mst, aga, structVars>>

\* AdvancedGraphAlgorithms(graph): get_vertices() lists the vertex set in an
\* arbitrary order
AgaInit(vs) ==
    /\ aga' = <<vs>>
    /\ UNCHANGED <<graphVars, flowVars, mst, ret, structVars>>

\* AdvancedGraphAlgorithms.find_scc()
FindScc ==
    /\ aga # <<>>
    /\ ret = <<>>
    /\ LET r == find_scc(aga[1], adj_list)
       IN  /\ ret' = <<[op |-> "find_scc", start |-> None, result |-> r.result]>>
           /\ adj_list' = r.adj_list
    /\ UNCHANGED <<directed, vertices, edges, flowVars, mst, aga, structVars>>

\* AdvancedGraphAlgorithms.topological_sort()
TopologicalSort ==
    /\ aga # <<>>
    /\ ret = <<>>
    /\ LET r == topological_sort(aga[1], adj_list)
       IN  /\ ret' = <<[op |-> "topological_sort", start |-> None, none |-> r.none,
                        result |-> r.result]>>
           /\ adj_list' = r.adj_list
    /\ UNCHANGED <<directed, vertices, edges, flowVars, mst, aga, structVars>>

\* the loops of main() that build a graph from an edge list
BuildNetwork(es) ==
    /\ Idle
    /\ vertices = {}
    /\ edges = <<>>
    /\ LET g == add_edges(TheGraph, es)
       IN  /\ vertices' = g.vertices
           /\ edges' = g.edges
           /\ adj_list' = g.adj_list
    /\ UNCHANGED <<directed, flowVars, mst, aga, ret, structVars>>

\* MaxFlow(graph): __init__ with initialize_residual_graph; get_vertices() lists
\* the vertex set in an arbitrary order
MaxFlowInit(vs) ==
    /\ mf_vertices' = vs
    /\ residual_graph' = initialize_residual_graph(EmptyMap, adj_list, vs)
    /\ adj_list' = TouchAll(adj_list, vs, <<>>)
    /\ pc' = "Initialized"
    /\ UNCHANGED <<directed, vertices, edges, source, sink, max_flow, flow_network,
                   augmentations, prev, mst, aga, ret, structVars>>

\* ford_fulkerson(source, sink), lines 78-84: up to the first search
FordFulkerson(src, snk) ==
    /\ prev' = IF pc = "Terminated"
               THEN <<[max_flow |-> max_flow, flow_network |-> flow_network]>>
               ELSE <<>>
    /\ source' = src
    /\ sink' = snk
    /\ max_flow' = 0
    /\ flow_network' = ZeroFlow(EmptyMap, residual_graph, mf_vertices)
    /\ residual_graph' = TouchAll(residual_graph, mf_vertices, <<>>)
    /\ pc' = "Augmenting"
    /\ augmentations' = 0
    /\ UNCHANGED <<graphVars, mf_vertices, mst, aga, ret, structVars>>

\* one iteration of the loop that finds a path, lines 88-102
Augment ==
    /\ pc = "Augmenting"
    /\ LET found == bfs_augmenting_path(residual_graph, source, sink)
       IN  /\ found.found
           /\ residual_graph' = AugmentResidual(Touch(residual_graph, source, <<>>),
                                                found.path, found.min_capacity)
           /\ flow_network' = AugmentFlow(flow_network, found.path, found.min_capacity)
           /\ max_flow' = max_flow + found.min_capacity
    /\ augmentations' = augmentations + 1
    /\ UNCHANGED <<graphVars, mf_vertices, source, sink, pc, prev, mst, aga, ret, structVars>>

\* the iteration that finds no path, lines 88-91 and 104
Terminate ==
    /\ pc = "Augmenting"
    /\ ~bfs_augmenting_path(residual_graph, source, sink).found
    /\ residual_graph' = Touch(residual_graph, source, <<>>)
    /\ pc' = "Terminated"
    /\ UNCHANGED <<graphVars, mf_vertices, source, sink, max_flow, flow_network,
                   augmentations, prev, mst, aga, ret, structVars>>

\* DisjointSet(vertices) on its own, over a list of names
NewDisjointSet(vs) ==
    /\ disjoint_set = <<>>
    /\ disjoint_set' = <<DisjointSet(vs)>>
    /\ UNCHANGED <<graphState, ret, heapVars, hashVars, bstVars, listVars, treeVars>>

\* ds.find(vertex): the compression stays in the set, the root is returned
Find(vertex) ==
    /\ disjoint_set # <<>>
    /\ vertex \in DOMAIN disjoint_set[1].parent
    /\ LET r == find(disjoint_set[1], vertex)
       IN  /\ disjoint_set' = <<r.ds>>
           /\ ret' = <<[op |-> "find", start |-> vertex, result |-> r.root]>>
    /\ UNCHANGED <<graphState, heapVars, hashVars, bstVars, listVars, treeVars>>

\* ds.union(vertex1, vertex2)
Union(vertex1, vertex2) ==
    /\ disjoint_set # <<>>
    /\ {vertex1, vertex2} \subseteq DOMAIN disjoint_set[1].parent
    /\ disjoint_set' = <<union(disjoint_set[1], vertex1, vertex2)>>
    /\ ret' = <<[op |-> "union", start |-> vertex1, other |-> vertex2, result |-> None]>>
    /\ UNCHANGED <<graphState, heapVars, hashVars, bstVars, listVars, treeVars>>

\* Heap(heap_type)
NewHeap(type) ==
    /\ heap_type = None
    /\ heap_type' = type
    /\ heap' = <<>>
    /\ heap_size' = 0
    /\ UNCHANGED <<graphState, ret, arr, sorted_arr, dsVars, hashVars, bstVars, listVars, treeVars>>

\* heap.insert(value)
HeapInsert(value) ==
    /\ heap_type # None
    /\ heap_size < MaxHeap
    /\ heap' = insert(heap, heap_type, heap_size, value)
    /\ heap_size' = heap_size + 1
    /\ arr' = <<>>
    /\ sorted_arr' = <<>>
    /\ ret' = <<[op |-> "insert", start |-> value, raised |-> FALSE, result |-> None]>>
    /\ UNCHANGED <<graphState, heap_type, dsVars, hashVars, bstVars, listVars, treeVars>>

\* heap.extract_top(): IndexError on an empty heap
ExtractTop ==
    /\ heap_type # None
    /\ IF heap_size = 0
       THEN /\ ret' = <<[op |-> "extract_top", start |-> None, raised |-> TRUE,
                         result |-> None]>>
            /\ UNCHANGED <<heap, heap_size, sorted_arr>>
       ELSE LET r == extract_top(heap, heap_type, heap_size)
            IN  /\ heap' = r.heap
                /\ heap_size' = heap_size - 1
                /\ sorted_arr' = Append(sorted_arr, r.result)
                /\ ret' = <<[op |-> "extract_top", start |-> None, raised |-> FALSE,
                             result |-> r.result]>>
    /\ UNCHANGED <<graphState, heap_type, arr, dsVars, hashVars, bstVars, listVars, treeVars>>

\* heap.peek(): IndexError on an empty heap
Peek ==
    /\ heap_type # None
    /\ ret' = IF heap_size = 0
              THEN <<[op |-> "peek", start |-> None, raised |-> TRUE, result |-> None]>>
              ELSE <<[op |-> "peek", start |-> None, raised |-> FALSE, result |-> heap[1]]>>
    /\ UNCHANGED <<graphState, heapVars, dsVars, hashVars, bstVars, listVars, treeVars>>

\* heap.build_heap(a), called on a heap that holds nothing and has given
\* nothing back since it last held something: the call replaces the list, so
\* what it leaves does not depend on what the heap held
BuildHeap(a) ==
    /\ heap_type # None
    /\ heap_size = 0
    /\ sorted_arr = <<>>
    /\ heap' = build_heap(a, heap_type)
    /\ heap_size' = Len(a)
    /\ arr' = <<a>>
    /\ sorted_arr' = <<>>
    /\ ret' = <<[op |-> "build_heap", start |-> None, raised |-> FALSE, result |-> None]>>
    /\ UNCHANGED <<graphState, heap_type, dsVars, hashVars, bstVars, listVars, treeVars>>

\* the values inserted, and the arrays given to build_heap
Values == 1..MaxValue
Arrays == UNION {[1..n -> Values] : n \in 0..MaxHeap} \cup {values}

\* HashTable(size)
NewHashTable(size) ==
    /\ ht_size = 0
    /\ ht_size' = size
    /\ table' = EmptyTable(size)
    /\ count' = 0
    /\ UNCHANGED <<graphState, ret, reference, dsVars, heapVars, bstVars, listVars, treeVars>>

\* the HashTable object
TheTable == [size |-> ht_size, table |-> table, count |-> count]

\* ht.insert(key, value); the mapping the calls describe gets key -> value
HtInsert(key, value) ==
    /\ ht_size # 0
    /\ LET t == ht_insert(TheTable, key, value)
       IN  /\ ht_size' = t.size
           /\ table' = t.table
           /\ count' = t.count
    /\ reference' = (key :> value) @@ reference
    /\ ret' = <<[op |-> "ht_insert", start |-> key, result |-> None]>>
    /\ UNCHANGED <<graphState, dsVars, heapVars, bstVars, listVars, treeVars>>

\* ht.get(key)
HtGet(key) ==
    /\ ht_size # 0
    /\ ret' = <<[op |-> "get", start |-> key, result |-> get(TheTable, key)]>>
    /\ UNCHANGED <<graphState, hashVars, dsVars, heapVars, bstVars, listVars, treeVars>>

\* ht.delete(key); the mapping the calls describe loses key
HtDelete(key) ==
    /\ ht_size # 0
    /\ LET r == delete(TheTable, key)
       IN  /\ ht_size' = r.t.size
           /\ table' = r.t.table
           /\ count' = r.t.count
           /\ ret' = <<[op |-> "delete", start |-> key, result |-> r.result]>>
    /\ reference' = [k \in DOMAIN reference \ {key} |-> reference[k]]
    /\ UNCHANGED <<graphState, dsVars, heapVars, bstVars, listVars, treeVars>>

\* the keys used: 1, 3 and -1 collide in a table of size 2, "ab" and "ba" in every table
Keys == {IntKey(1), IntKey(3), IntKey(-1), StrKey(<<97, 98>>), StrKey(<<98, 97>>)}
\* the values stored
Stored == {"One", "Two"}

\* bst.insert(value)
BstInsert(value) ==
    /\ Nodes(root) < MaxNodes
    /\ root' = bst_insert(root, value)
    /\ ret' = <<[op |-> "bst_insert", start |-> value, result |-> None]>>
    /\ UNCHANGED <<graphState, dsVars, heapVars, hashVars, listVars, treeVars>>

\* bst.delete(value)
BstDelete(value) ==
    /\ root' = _delete_recursive(root, value)
    /\ ret' = <<[op |-> "bst_delete", start |-> value, result |-> None]>>
    /\ UNCHANGED <<graphState, dsVars, heapVars, hashVars, listVars, treeVars>>

\* bst.search(value)
BstSearch(value) ==
    /\ ret' = <<[op |-> "bst_search", start |-> value, result |-> bst_search(root, value)]>>
    /\ UNCHANGED <<graphState, dsVars, heapVars, hashVars, bstVars, listVars, treeVars>>

\* bst.is_valid_bst()
IsValidBst ==
    /\ ret' = <<[op |-> "is_valid_bst", start |-> None,
                 result |-> is_valid_bst(root, <<>>, <<>>, <<>>)]>>
    /\ UNCHANGED <<graphState, dsVars, heapVars, hashVars, bstVars, listVars, treeVars>>

\* bst.inorder_traversal()
InorderTraversal ==
    /\ LET r == inorder_traversal(root, <<>>, {})
       IN  ret' = <<[op |-> "inorder_traversal", start |-> None, raised |-> r.raised,
                     result |-> r.out]>>
    /\ UNCHANGED <<graphState, dsVars, heapVars, hashVars, bstVars, listVars, treeVars>>

\* bst.get_height()
GetHeight ==
    /\ LET h == get_height(root, <<>>, {})
       IN  ret' = <<[op |-> "get_height", start |-> None, raised |-> h = <<>>,
                     result |-> h]>>
    /\ UNCHANGED <<graphState, dsVars, heapVars, hashVars, bstVars, listVars, treeVars>>

\* the names a DisjointSet on its own is built over
SetNames == {"A", "B", "C", "D"}

\* the networks the main() functions build, and CrossEdges
FlowNetworks == {edges1, edges2, CrossEdges}
Networks == FlowNetworks \cup {graph_edges, scc_edges1, dag_edges2, cycle_edges3}

\* the start vertices tried; a name that a freely built graph does not use is
\* a vertex that is not in the graph
Starts == Names

\* a first call on a freely built graph takes any two names; main() calls
\* ford_fulkerson('S', 'T') on the networks it builds
FirstCall ==
    /\ pc = "Initialized"
    /\ \/ \E s, t \in Names : edges \notin FlowNetworks /\ FordFulkerson(s, t)
       \/ edges \in FlowNetworks /\ FordFulkerson("S", "T")

\* a second call on the same instance, with the arguments of the first
SecondCall ==
    /\ pc = "Terminated"
    /\ prev = <<>>
    /\ FordFulkerson(source, sink)

\* building a graph
Build ==
    \/ \E v \in Names : AddVertex(v)
    \/ \E u, v \in Names, w \in Weights : AddEdge(u, v, w)
    \/ \E es \in Networks : directed /\ BuildNetwork(es)
    \/ ~directed /\ BuildNetwork(mst_graph_edges)

\* the calls of graphs.py
TraversalNext ==
    \/ \E s \in Starts : Bfs(s)
    \/ \E s \in Starts : Dfs(s)
    \/ \E s \in Starts : Dijkstra(s)

\* the calls of minimum_spanning_trees.py
MstNext ==
    \/ Idle /\ \E vs \in Orders(vertices) : MstInit(vs)
    \/ Kruskal
    \/ \E s \in Starts \cup {None} : Prim(s)

\* the calls of advanced_graph_algorithms.py
SccNext ==
    \/ Idle /\ \E vs \in Orders(vertices) : AgaInit(vs)
    \/ FindScc

\* the calls of advanced_graph_algorithms.py for the topological order
TopologicalNext ==
    \/ Idle /\ \E vs \in Orders(vertices) : AgaInit(vs)
    \/ TopologicalSort

\* the calls of maximum_flow.py
FlowNext ==
    \/ Idle /\ directed /\ vertices # {} /\ \E vs \in Orders(vertices) : MaxFlowInit(vs)
    \/ FirstCall
    \/ SecondCall
    \/ Augment
    \/ Terminate

\* the calls on a graph
GraphNext == TraversalNext \/ MstNext \/ SccNext \/ TopologicalSort \/ FlowNext

\* a DisjointSet used directly
DisjointSetNext ==
    \/ \E S \in SUBSET SetNames : S # {} /\ NewDisjointSet(SortedSeq(S))
    \/ \E v \in SetNames : Find(v)
    \/ \E v1, v2 \in SetNames : Union(v1, v2)

\* a Heap
HeapNext ==
    \/ \E type \in {"min", "max"} : NewHeap(type)
    \/ \E value \in Values : HeapInsert(value)
    \/ ExtractTop
    \/ Peek
    \/ \E a \in Arrays : BuildHeap(a)

\* a HashTable
HashTableNext ==
    \/ \E size \in 1..MaxSize \cup {DefaultSize} : NewHashTable(size)
    \/ \E key \in Keys, value \in Stored : HtInsert(key, value)
    \/ \E key \in Keys : HtGet(key)
    \/ \E key \in Keys : HtDelete(key)

\* a BinarySearchTree
BstNext ==
    \/ \E value \in Values : BstInsert(value)
    \/ \E value \in Values : BstDelete(value)
    \/ \E value \in Values : BstSearch(value)
    \/ IsValidBst
    \/ InorderTraversal
    \/ GetHeight

\* the LinkedList object
TheList == [nodes |-> ll_nodes, head |-> ll_head, size |-> ll_size]

\* the list becomes l
ListBecomes(l) ==
    /\ ll_nodes' = l.nodes
    /\ ll_head' = l.head
    /\ ll_size' = l.size

\* ll.insert_at_beginning(data)
InsertAtBeginning(data) ==
    /\ Len(ll_nodes) < MaxListNodes
    /\ ListBecomes(insert_at_beginning(TheList, data))
    /\ ret' = <<[op |-> "insert_at_beginning", start |-> data, result |-> None]>>
    /\ UNCHANGED <<graphState, ll_node, dsVars, heapVars, hashVars, bstVars, treeVars>>

\* ll.insert_at_end(data)
InsertAtEnd(data) ==
    /\ Len(ll_nodes) < MaxListNodes
    /\ ListBecomes(insert_at_end(TheList, data))
    /\ ret' = <<[op |-> "insert_at_end", start |-> data, result |-> None]>>
    /\ UNCHANGED <<graphState, ll_node, dsVars, heapVars, hashVars, bstVars, treeVars>>

\* node = ll.search(key)
Search(key) ==
    /\ ll_node' = <<search(TheList, key)>>
    /\ ret' = <<[op |-> "search", start |-> key, result |-> search(TheList, key)]>>
    /\ UNCHANGED <<graphState, ll_nodes, ll_head, ll_size, dsVars, heapVars, hashVars,
                   bstVars, treeVars>>

\* ll.insert_after(node, data) with the node of the last search
InsertAfter(data) ==
    /\ ll_node # <<>>
    /\ Len(ll_nodes) < MaxListNodes
    /\ ListBecomes(insert_after(TheList, ll_node[1], data))
    /\ ret' = <<[op |-> "insert_after", start |-> data, result |-> None]>>
    /\ UNCHANGED <<graphState, ll_node, dsVars, heapVars, hashVars, bstVars, treeVars>>

\* ll.delete_node(key)
DeleteNode(key) ==
    /\ ListBecomes(delete_node(TheList, key))
    /\ ret' = <<[op |-> "delete_node", start |-> key, result |-> None]>>
    /\ UNCHANGED <<graphState, ll_node, dsVars, heapVars, hashVars, bstVars, treeVars>>

\* ll.get_size()
GetSize ==
    /\ ret' = <<[op |-> "get_size", start |-> None, result |-> get_size(TheList)]>>
    /\ UNCHANGED <<graphState, listVars, dsVars, heapVars, hashVars, bstVars, treeVars>>

\* the data stored
Data == 1..MaxData
ListNext ==
    \/ \E data \in Data : InsertAtBeginning(data)
    \/ \E data \in Data : InsertAtEnd(data)
    \/ \E key \in Data : Search(key)
    \/ \E data \in Data : InsertAfter(data)
    \/ \E key \in Data : DeleteNode(key)
    \/ GetSize

\* tree.insert(value)
TreeInsert(value) ==
    /\ Nodes(tree_root) < MaxTreeNodes
    /\ tree_root' = tree_insert(tree_root, value)
    /\ ret' = <<[op |-> "tree_insert", start |-> value, result |-> None]>>
    /\ UNCHANGED <<graphState, dsVars, heapVars, hashVars, bstVars, listVars>>

\* tree.height()
TreeHeight ==
    /\ LET h == height(tree_root, <<>>, {})
       IN  ret' = <<[op |-> "height", start |-> None, raised |-> h = <<>>, result |-> h]>>
    /\ UNCHANGED <<graphState, dsVars, heapVars, hashVars, bstVars, listVars, treeVars>>

\* tree.count_nodes()
CountNodes ==
    /\ LET c == count_nodes(tree_root, <<>>, {})
       IN  ret' = <<[op |-> "count_nodes", start |-> None, raised |-> c = <<>>, result |-> c]>>
    /\ UNCHANGED <<graphState, dsVars, heapVars, hashVars, bstVars, listVars, treeVars>>

TreeNext ==
    \/ \E value \in Values : TreeInsert(value)
    \/ TreeHeight
    \/ CountNodes

Next ==
    \/ Build \/ GraphNext \/ DisjointSetNext \/ HeapNext \/ HashTableNext \/ BstNext
    \/ ListNext \/ TreeNext

Spec == Init /\ [][Next]_vars

\* a caller that uses one of the modules only
TraversalSpec == Init /\ [][Build \/ TraversalNext]_vars
MstSpec == Init /\ [][Build \/ MstNext]_vars
KruskalSpec ==
    Init /\ [][Build \/ (Idle /\ \E vs \in Orders(vertices) : MstInit(vs)) \/ Kruskal]_vars
\* the owner of the graph adds edges between the construction of MST(graph)
\* and the call of kruskal
OwnerNext ==
    \/ Idle /\ \E vs \in Orders(vertices) : MstInit(vs)
    \/ \E u, v \in Names, w \in Weights : AddEdgeLater(u, v, w)
    \/ Kruskal
OwnerSpec == Init /\ [][Build \/ OwnerNext]_vars
SccSpec == Init /\ [][Build \/ SccNext]_vars
TopologicalSpec == Init /\ [][Build \/ TopologicalNext]_vars
GraphSpec == Init /\ [][Build \/ GraphNext]_vars
DisjointSetSpec == Init /\ [][DisjointSetNext]_vars
HeapSpec == Init /\ [][HeapNext]_vars
HashTableSpec == Init /\ [][HashTableNext]_vars
BstSpec == Init /\ [][BstNext]_vars
ListSpec == Init /\ [][ListNext]_vars
TreeSpec == Init /\ [][TreeNext]_vars
FlowSpec == Init /\ [][Build \/ FlowNext]_vars

-----------------------------------------------------------------------------
(* Reference notions for the max-flow claims *)

RECURSIVE SumCaps(_, _, _)
\* the capacity the edge list es carries from the set X to the set Y
SumCaps(es, X, Y) ==
    IF es = <<>> THEN 0
    ELSE (IF es[1][1] \in X /\ es[1][2] \in Y THEN es[1][3] ELSE 0) + SumCaps(Tail(es), X, Y)

Capacity(u, v) == SumCaps(edges, {u}, {v})
HasEdge(u, v) == \E i \in DOMAIN edges : edges[i][1] = u /\ edges[i][2] = v
NoParallelEdges ==
    \A i, j \in DOMAIN edges : (edges[i][1] = edges[j][1] /\ edges[i][2] = edges[j][2]) => i = j

Cuts(s, t) == {X \in SUBSET vertices : s \in X /\ t \notin X}
MinCut(s, t) ==
    LET caps == {SumCaps(edges, X, vertices \ X) : X \in Cuts(s, t)}
    IN  CHOOSE c \in caps : \A d \in caps : c <= d

RECURSIVE SumValues(_)
SumValues(d) == IF d = <<>> THEN 0 ELSE d[1][2] + SumValues(Tail(d))

Entry(m, u, v) == IF u \in DOMAIN m /\ DHas(m[u], v) THEN DGet(m[u], v) ELSE 0
Outflow(v) == IF v \in DOMAIN flow_network THEN SumValues(flow_network[v]) ELSE 0
RECURSIVE SumInto(_, _)
SumInto(us, v) ==
    IF us = {} THEN 0
    ELSE LET u == CHOOSE x \in us : TRUE IN Entry(flow_network, u, v) + SumInto(us \ {u}, v)
Inflow(v) == SumInto(DOMAIN flow_network, v)

Running == pc \in {"Augmenting", "Terminated"}
FirstReturn == pc = "Terminated" /\ prev = <<>>

-----------------------------------------------------------------------------
(* Claims *)

\* C1: when ford_fulkerson(source, sink) returns, for source # sink both in the
\* graph, the value returned equals the capacity of a minimum source-sink cut.
C1_MaxFlowIsMinCut ==
    (FirstReturn /\ source # sink /\ {source, sink} \subseteq vertices)
        => max_flow = MinCut(source, sink)

\* C2: right after MaxFlow(graph) is constructed on a graph without parallel
\* edges, every edge u->v of capacity c has residual[u][v] = c, and every entry
\* of the residual graph that is no edge of the graph is 0.
C2_ResidualSeeded ==
    (pc = "Initialized" /\ NoParallelEdges) =>
        /\ \A i \in DOMAIN edges :
              Entry(residual_graph, edges[i][1], edges[i][2]) = edges[i][3]
        /\ \A u \in DOMAIN residual_graph : \A v \in DKeys(residual_graph[u]) :
              ~HasEdge(u, v) => DGet(residual_graph[u], v) = 0

\* C3: in the flow network ford_fulkerson returns, every entry [u][v] is at
\* least 0 and at most the capacity of the edge u->v (0 when there is none).
C3_FlowWithinCapacity ==
    pc = "Terminated" =>
        \A u \in DOMAIN flow_network : \A v \in DKeys(flow_network[u]) :
            /\ 0 <= DGet(flow_network[u], v)
            /\ DGet(flow_network[u], v) <= Capacity(u, v)

\* C4: after every augmenting-path update and at return, every vertex other
\* than source and sink has as much flow entering it as leaving it.
C4_FlowConservation ==
    Running =>
        \A v \in (vertices \cup DOMAIN flow_network) \ {source, sink} : Inflow(v) = Outflow(v)

C4_Witness ==
    /\ pc = "Terminated"
    /\ \E v \in vertices \ {source, sink} : Outflow(v) > 0 /\ Inflow(v) = Outflow(v)

\* C5: after every augmenting-path update, residual[u][v] + flow[u][v] is the
\* capacity of every edge u->v, and a synthetic back-edge (v,u), one with no
\* edge v->u in the graph, has residual[v][u] = flow[u][v].
C5_ResidualPlusFlow ==
    (Running /\ max_flow > 0 /\ NoParallelEdges) =>
        \A i \in DOMAIN edges :
            LET u == edges[i][1]
                v == edges[i][2]
            IN  /\ Entry(residual_graph, u, v) + Entry(flow_network, u, v) = edges[i][3]
                /\ ~HasEdge(v, u) => Entry(residual_graph, v, u) = Entry(flow_network, u, v)

\* C6: a ford_fulkerson call never augments forever: every iteration of its
\* loop either finds no path and ends the call with the flow accumulated so
\* far, or raises the accumulated flow by a positive bottleneck, and the flow
\* never exceeds the capacity leaving the source. Source and sink may be equal
\* or absent from the graph.
C6_Terminates ==
    [][pc = "Augmenting" =>
          \/ pc' = "Terminated" /\ max_flow' = max_flow /\ augmentations' = augmentations
          \/ /\ pc' = "Augmenting"
             /\ augmentations' = augmentations + 1
             /\ max_flow' > max_flow
             /\ max_flow' <= SumCaps(edges, {source}, vertices)]_vars

C6_Witness ==
    /\ pc = "Terminated"
    /\ augmentations >= 3
    /\ max_flow > augmentations

\* C7: a second ford_fulkerson(source, sink) on the same MaxFlow instance
\* returns the value and the flow network the first call returned.
C7_SecondCallSame ==
    (pc = "Terminated" /\ prev # <<>>) =>
        /\ max_flow = prev[1].max_flow
        /\ flow_network = prev[1].flow_network

\* C8: on the network edges1 of main(), ford_fulkerson('S', 'T') returns 14
\* whatever order the vertex set is listed in.
C8_Example1Is14 ==
    (FirstReturn /\ edges = edges1 /\ source = "S" /\ sink = "T") => max_flow = 14

C8_Witness ==
    /\ FirstReturn /\ edges = edges1 /\ source = "S" /\ sink = "T"
    /\ max_flow = 14
    /\ mf_vertices[1] = "T"

\* C9: a start vertex, source or sink that is not in the graph's vertex set
\* gives the neutral result: bfs and dfs the empty sequence, dijkstra the empty
\* mapping, prim no edges and total weight 0, ford_fulkerson the flow value 0.
C9_AbsentVertexNeutral ==
    /\ (ret # <<>> /\ ret[1].start \notin vertices \cup {None}) =>
          /\ ret[1].op \in {"bfs", "dfs"} => ret[1].result = <<>>
          /\ ret[1].op = "dijkstra" => (~ret[1].tuple /\ DOMAIN ret[1].distances = {})
          /\ ret[1].op = "prim" => (ret[1].mst_edges = <<>> /\ ret[1].total_weight = 0)
    /\ (pc = "Terminated" /\ ~({source, sink} \subseteq vertices)) => max_flow = 0

C9_Witness ==
    /\ ret # <<>>
    /\ ret[1].op = "prim"
    /\ ret[1].start \notin vertices \cup {None}
    /\ Len(edges) >= 2
    /\ ~directed

\* C10: the distances dijkstra(start) returns for a start vertex in the graph
\* have distances[start] = 0 and distances[v] <= distances[u] + w for every
\* adjacency entry u->v of weight w.
C10_Relaxed ==
    (ret # <<>> /\ ret[1].op = "dijkstra" /\ ret[1].start \in vertices) =>
        LET distances == ret[1].distances
        IN  /\ ret[1].tuple
            /\ distances[ret[1].start] = 0
            /\ \A u \in DOMAIN adj_list : \A i \in DOMAIN adj_list[u] :
                  LET v == adj_list[u][i][1]
                      w == adj_list[u][i][2]
                  IN  distances[u] # Infinity =>
                          (distances[v] # Infinity /\ distances[v] <= distances[u] + w)

C10_Witness ==
    /\ ret # <<>>
    /\ ret[1].op = "dijkstra"
    /\ edges = graph_edges
    /\ ret[1].start = "A"
    /\ ret[1].distances["D"] = 9
    /\ ret[1].paths["D"] = <<"A", "B", "D">>

-----------------------------------------------------------------------------
(* Reference notions for the traversal and shortest-path claims *)

\* the vertices that the adjacency entries lead to from the set S, S included
RECURSIVE ReachFrom(_)
ReachFrom(S) ==
    LET N == S \cup UNION {{adj_list[u][i][1] : i \in DOMAIN adj_list[u]} :
                              u \in S \cap DOMAIN adj_list}
    IN  IF N = S THEN S ELSE ReachFrom(N)
Reachable(s) == ReachFrom({s})

\* the weights of the adjacency entries u -> v
EntryWeights(u, v) ==
    IF u \in DOMAIN adj_list
    THEN {adj_list[u][i][2] : i \in {j \in DOMAIN adj_list[u] : adj_list[u][j][1] = v}}
    ELSE {}

\* the sums of weights that adjacency entries give along the vertex sequence p
\* (none when two consecutive vertices of p are not joined by an entry)
RECURSIVE PathSums(_)
PathSums(p) ==
    IF Len(p) < 2 THEN {0}
    ELSE {w + s : w \in EntryWeights(p[1], p[2]), s \in PathSums(Tail(p))}

DijkstraReturned(start) ==
    ret # <<>> /\ ret[1].op = "dijkstra" /\ ret[1].start = start /\ start \in vertices

\* C11: at the return of dijkstra(start), start in the graph: a vertex v
\* reachable from start has a path paths[v] from start to v along adjacency
\* entries whose weights sum to distances[v]; an unreachable vertex has
\* distance +infinity and the empty path.
C11_PathsMatchDistances ==
    \A start \in vertices : DijkstraReturned(start) =>
        \A v \in vertices :
            LET p == ret[1].paths[v]
                d == ret[1].distances[v]
            IN  IF v \in Reachable(start)
                THEN /\ p # <<>>
                     /\ p[1] = start
                     /\ p[Len(p)] = v
                     /\ d # Infinity
                     /\ d \in PathSums(p)
                ELSE d = Infinity /\ p = <<>>

C11_Witness ==
    /\ DijkstraReturned("B")
    /\ edges = graph_edges
    /\ ret[1].distances["A"] = Infinity
    /\ ret[1].paths["E"] = <<"B", "D", "E">>
    /\ ret[1].distances["E"] = 7

\* C12 (as the spec states it): on the directed graph of main(), dijkstra('A')
\* yields distance[E] = 12.
C12_DistanceEIs12 ==
    (DijkstraReturned("A") /\ directed /\ edges = graph_edges) => ret[1].distances["E"] = 12

\* C12 (amended): on the directed graph of main(), dijkstra('A') yields
\* distance[E] = 11, the weight of A -> B -> D -> E.
C12_DistanceEIs11 ==
    (DijkstraReturned("A") /\ directed /\ edges = graph_edges) => ret[1].distances["E"] = 11

C12_Witness ==
    /\ DijkstraReturned("A") /\ directed /\ edges = graph_edges
    /\ ret[1].paths["E"] = <<"A", "B", "D", "E">>
    /\ ret[1].distances["E"] = 11

\* C13: on the directed graph of main(), dijkstra('A') returns the distances
\* A:0, C:2, B:4, D:9, E:11.
C13_ExampleDistances ==
    (DijkstraReturned("A") /\ directed /\ edges = graph_edges) =>
        ret[1].distances = [v \in {"A", "B", "C", "D", "E"} |->
                               CASE v = "A" -> 0 [] v = "B" -> 4 [] v = "C" -> 2
                                 [] v = "D" -> 9 [] v = "E" -> 11]

C13_Witness ==
    /\ DijkstraReturned("A") /\ directed /\ edges = graph_edges
    /\ DOMAIN ret[1].distances = {"A", "B", "C", "D", "E"}
    /\ ret[1].distances["C"] = 2
    /\ ret[1].distances["B"] = 4

\* C14: for a start vertex s of the graph (directed or not, parallel edges and
\* self-loops allowed), bfs(s) and dfs(s) each return as many vertices as are
\* reachable from s, s included, and no vertex twice.
C14_TraversalCoversReachable ==
    (ret # <<>> /\ ret[1].op \in {"bfs", "dfs"} /\ ret[1].start \in vertices) =>
        LET result == ret[1].result
        IN  /\ Len(result) = Cardinality(Reachable(ret[1].start))
            /\ Cardinality({result[i] : i \in DOMAIN result}) = Len(result)

C14_Witness ==
    /\ ret # <<>>
    /\ ret[1].op = "dfs"
    /\ \E i \in DOMAIN edges : edges[i][1] = ret[1].start /\ edges[i][2] = ret[1].start
    /\ Len(ret[1].result) = 2
    /\ Cardinality(vertices) = 3

-----------------------------------------------------------------------------
(* Reference notions for the spanning-tree claims *)

\* the vertices joined to the set S by the edges of the set E, taken in both
\* directions, S included
RECURSIVE UReach(_, _)
UReach(E, S) ==
    LET N == S \cup {e[2] : e \in {x \in E : x[1] \in S}}
                \cup {e[1] : e \in {x \in E : x[2] \in S}}
    IN  IF N = S THEN S ELSE UReach(E, N)

EdgeSet(es) == {es[i] : i \in DOMAIN es}
Joined(es, u, v) == v \in UReach(EdgeSet(es), {u})

\* every two vertices of the graph are joined by edges
Connected == vertices # {} /\ \A v \in vertices : UReach(EdgeSet(edges), {v}) = vertices

\* no edge of es closes a cycle: without it, its ends are not joined
Acyclic(es) ==
    \A i \in DOMAIN es : ~Joined(Without(es, i), es[i][1], es[i][2])

RECURSIVE SumWeights(_)
SumWeights(es) == IF es = <<>> THEN 0 ELSE es[1][3] + SumWeights(Tail(es))

RECURSIVE WeightOf(_)
WeightOf(T) ==
    IF T = {} THEN 0 ELSE LET i == CHOOSE x \in T : TRUE IN edges[i][3] + WeightOf(T \ {i})

\* the sets of edges (by position in the edge list) that are spanning trees
SpanningTrees ==
    {T \in SUBSET DOMAIN edges :
        /\ Cardinality(T) = Cardinality(vertices) - 1
        /\ \A v \in vertices : UReach({edges[i] : i \in T}, {v}) = vertices}

IsMinimumSpanningWeight(w) ==
    /\ \E T \in SpanningTrees : WeightOf(T) = w
    /\ \A T \in SpanningTrees : w <= WeightOf(T)

Last == ret[Len(ret)]
KruskalReturned == ret # <<>> /\ ret[1].op = "kruskal"
PrimReturned == ret # <<>> /\ Last.op = "prim" /\ mst[1] # <<>>
\* the vertex prim starts from (the first of the vertex list when none is given)
PrimStart == IF Last.start = None THEN mst[1][1] ELSE Last.start

\* C15: on a connected undirected graph, kruskal() and then prim(start), for
\* any start vertex of the graph or the default one, return the same total
\* weight.
C15_KruskalPrimAgree ==
    (KruskalReturned /\ PrimReturned /\ ~directed /\ Connected /\ PrimStart \in vertices) =>
        ret[1].total_weight = ret[2].total_weight

C15_Witness ==
    /\ KruskalReturned /\ PrimReturned /\ ~directed
    /\ edges = mst_graph_edges
    /\ PrimStart = "C"
    /\ ret[1].total_weight = 12
    /\ ret[2].total_weight = 12
    /\ ret[1].mst_edges # ret[2].mst_edges

\* C16: the edges kruskal() returns contain no cycle, on any graph (parallel
\* edges and self-loops included), and on a connected graph with |V| vertices
\* they are |V| - 1 edges.
C16_KruskalAcyclic ==
    KruskalReturned =>
        /\ Acyclic(ret[1].mst_edges)
        /\ Connected => Len(ret[1].mst_edges) = Cardinality(vertices) - 1

C16_Witness ==
    /\ KruskalReturned
    /\ Len(edges) = 2
    /\ edges[1][1] = edges[2][2] /\ edges[1][2] = edges[2][1]
    /\ Cardinality(vertices) = 2
    /\ Len(ret[1].mst_edges) = 1

\* C17: on a connected undirected graph the edges kruskal() returns join all
\* vertices, their weights sum to the total weight returned, and no spanning
\* tree of the graph weighs less.
C17_KruskalMinimum ==
    (KruskalReturned /\ ~directed /\ Connected) =>
        /\ \A v \in vertices : UReach(EdgeSet(ret[1].mst_edges), {v}) = vertices
        /\ SumWeights(ret[1].mst_edges) = ret[1].total_weight
        /\ IsMinimumSpanningWeight(ret[1].total_weight)

C17_Witness ==
    /\ KruskalReturned /\ ~directed /\ Len(ret) = 1
    /\ edges = mst_graph_edges
    /\ ret[1].total_weight = 12
    /\ Len(ret[1].mst_edges) = 5

\* C18: on an undirected graph, connected or not, prim(s) for s in the graph
\* returns a tree on exactly the vertices reachable from s: one edge less than
\* there are reachable vertices, each edge from a vertex already in the tree to
\* one not yet in it.
C18_PrimSpansReachable ==
    (PrimReturned /\ ~directed /\ PrimStart \in vertices) =>
        LET es == Last.mst_edges
            Tree(n) == {PrimStart} \cup {es[j][2] : j \in 1..n}
        IN  /\ Len(es) = Cardinality(Reachable(PrimStart)) - 1
            /\ Tree(Len(es)) = Reachable(PrimStart)
            /\ \A i \in DOMAIN es : es[i][1] \in Tree(i - 1) /\ es[i][2] \notin Tree(i - 1)

C18_Witness ==
    /\ PrimReturned /\ ~directed /\ Len(ret) = 1
    /\ PrimStart \in vertices
    /\ Cardinality(vertices) = 3
    /\ Cardinality(Reachable(PrimStart)) = 2
    /\ Len(edges) = 2
    /\ Len(Last.mst_edges) = 1

-----------------------------------------------------------------------------
(* Claims on the strongly connected components *)

SccReturned == ret # <<>> /\ ret[1].op = "find_scc"
Component(c) == {c[i] : i \in DOMAIN c}
RECURSIVE SumLen(_)
SumLen(cs) == IF cs = <<>> THEN 0 ELSE Len(cs[1]) + SumLen(Tail(cs))

\* C19: on a directed graph, whatever order the vertex set is listed in, the
\* components find_scc() returns partition the vertex set: every vertex is in
\* exactly one component, once.
C19_SccPartition ==
    (SccReturned /\ directed) =>
        LET scc_list == ret[1].result
        IN  /\ UNION {Component(scc_list[k]) : k \in DOMAIN scc_list} = vertices
            /\ SumLen(scc_list) = Cardinality(vertices)
            /\ \A v \in vertices :
                  Cardinality({k \in DOMAIN scc_list : v \in Component(scc_list[k])}) = 1

C19_Witness ==
    /\ SccReturned /\ directed
    /\ edges = edges2
    /\ aga[1][1] = "T"
    /\ Len(ret[1].result) = 4

\* C20: on a directed graph, whatever order the vertex set is listed in, two
\* vertices are in the same component returned by find_scc() exactly when each
\* is reachable from the other.
C20_SccMutuallyReachable ==
    (SccReturned /\ directed) =>
        \A u, v \in vertices :
            (\E k \in DOMAIN ret[1].result : {u, v} \subseteq Component(ret[1].result[k]))
                <=> (v \in Reachable(u) /\ u \in Reachable(v))

C20_Witness ==
    /\ SccReturned /\ directed
    /\ edges = graph_edges
    /\ \E k \in DOMAIN ret[1].result : Component(ret[1].result[k]) = {"D", "E"}
    /\ Len(ret[1].result) = 4

\* C21: on the first graph of main() in advanced_graph_algorithms.py,
\* find_scc() returns exactly three components: {A,B,C}, {D,E,F}, {G,H,I,J}.
C21_ExampleComponents ==
    (SccReturned /\ directed /\ edges = scc_edges1) =>
        /\ Len(ret[1].result) = 3
        /\ {Component(ret[1].result[k]) : k \in DOMAIN ret[1].result}
               = {{"A", "B", "C"}, {"D", "E", "F"}, {"G", "H", "I", "J"}}

C21_Witness ==
    /\ SccReturned /\ directed /\ edges = scc_edges1
    /\ aga[1][1] = "J"
    /\ Len(ret[1].result) = 3
    /\ \E k \in DOMAIN ret[1].result : Component(ret[1].result[k]) = {"G", "H", "I", "J"}

-----------------------------------------------------------------------------
(* Claims on the topological order *)

TopologicalReturned == ret # <<>> /\ ret[1].op = "topological_sort"
\* some vertex is reached again from itself along adjacency entries
HasCycle ==
    \E u \in DOMAIN adj_list : \E i \in DOMAIN adj_list[u] : u \in Reachable(adj_list[u][i][1])
Position(order, v) == CHOOSE i \in DOMAIN order : order[i] = v

\* C22: on a directed graph without a cycle (isolated vertices included),
\* whatever order the vertex set is listed in, topological_sort() returns every
\* vertex exactly once, and u before v for every edge (u, v).
C22_TopologicalOrder ==
    (TopologicalReturned /\ directed /\ ~HasCycle) =>
        LET order == ret[1].result
        IN  /\ ~ret[1].none
            /\ Len(order) = Cardinality(vertices)
            /\ {order[i] : i \in DOMAIN order} = vertices
            /\ \A i \in DOMAIN edges :
                  Position(order, edges[i][1]) < Position(order, edges[i][2])

C22_Witness ==
    /\ TopologicalReturned /\ directed
    /\ edges = dag_edges2
    /\ aga[1][1] = "F"
    /\ Len(ret[1].result) = 7
    /\ ret[1].result[1] \in {"A", "G"}

\* C23: on a directed graph, topological_sort() returns None, and no order,
\* exactly when the graph has a cycle somewhere (a self-loop, or a cycle away
\* from the vertices listed first, included).
C23_CycleGivesNone ==
    (TopologicalReturned /\ directed) =>
        /\ ret[1].none <=> HasCycle
        /\ ret[1].none => ret[1].result = <<>>

C23_Witness ==
    /\ TopologicalReturned /\ directed
    /\ ret[1].none
    /\ Cardinality(vertices) = 3
    /\ \E i \in DOMAIN edges : edges[i][1] = aga[1][3] /\ edges[i][2] = aga[1][3]
    /\ \E i \in DOMAIN edges : edges[i][1] = aga[1][1] /\ edges[i][2] = aga[1][2]

-----------------------------------------------------------------------------
(* Claims on the graph as the algorithms leave it *)

\* C24: no algorithm call changes the graph: a step after which an algorithm
\* object exists or a result was returned (any step but add_vertex and
\* add_edge) leaves the directed flag, the vertex set, the edge sequence and
\* the adjacency mapping, its key set included, as they were.
C24_GraphNotMutated ==
    [][~Idle' => /\ directed' = directed
                 /\ vertices' = vertices
                 /\ edges' = edges
                 /\ adj_list' = adj_list]_vars

\* C25: every vertex in an edge triple, every key of the adjacency mapping and
\* every neighbour in an adjacency sequence is in the vertex set, after any
\* sequence of add_vertex, add_edge and algorithm calls.
C25_VerticesCoverGraph ==
    /\ \A i \in DOMAIN edges : {edges[i][1], edges[i][2]} \subseteq vertices
    /\ DOMAIN adj_list \subseteq vertices
    /\ \A u \in DOMAIN adj_list : \A i \in DOMAIN adj_list[u] : adj_list[u][i][1] \in vertices

-----------------------------------------------------------------------------
(* Claims on the disjoint set *)

\* the representative of a vertex: the end of its chain of parent pointers
RECURSIVE Representative(_, _)
Representative(d, v) ==
    IF d.parent[v] = v THEN v ELSE Representative(d, d.parent[v])

\* the DisjointSet before and after the call that ret' reports
DsCalled(name) ==
    /\ disjoint_set # <<>>
    /\ ret' # <<>>
    /\ ret'[1].op = name

\* C26: a find call returns the representative of its vertex, which is its own
\* parent, and leaves every vertex with the representative it had; after
\* union(a, b) a and b have the same representative, and the vertices outside
\* the two sets keep theirs.
C26_DisjointSetRepresentatives ==
    [][LET d == disjoint_set[1]
           e == disjoint_set'[1]
       IN  /\ DsCalled("find") =>
                 /\ ret'[1].result = Representative(d, ret'[1].start)
                 /\ e.parent[ret'[1].result] = ret'[1].result
                 /\ \A v \in DOMAIN d.parent : Representative(e, v) = Representative(d, v)
           /\ DsCalled("union") =>
                 LET ra == Representative(d, ret'[1].start)
                     rb == Representative(d, ret'[1].other)
                 IN  /\ find(e, ret'[1].start).root = find(e, ret'[1].other).root
                     /\ Representative(e, ret'[1].start) = Representative(e, ret'[1].other)
                     /\ \A v \in DOMAIN d.parent :
                           Representative(d, v) \notin {ra, rb} =>
                               Representative(e, v) = Representative(d, v)]_vars

\* a find has just compressed the whole of a set of four vertices, whose root has rank 2
C26_Witness ==
    /\ disjoint_set # <<>>
    /\ ret # <<>>
    /\ ret[1].op = "find"
    /\ \E r \in DOMAIN disjoint_set[1].parent :
          /\ disjoint_set[1].rank[r] = 2
          /\ ret[1].result = r
          /\ ret[1].start # r
          /\ \A v \in SetNames : v \in DOMAIN disjoint_set[1].parent
                                  /\ disjoint_set[1].parent[v] = r

-----------------------------------------------------------------------------
(* Claims on the heap *)

\* every parent of the list is not below its children in the order of the type
HeapProperty(h, type) ==
    \A i \in 2..Len(h) : ~Above(type, h[i], h[i \div 2])

\* the number of times x occurs in a list
Occurrences(h, x) == Cardinality({i \in DOMAIN h : h[i] = x})

\* the elements of a list
Elements(h) == {h[i] : i \in DOMAIN h}

\* the call that ret' reports was made on a Heap
HeapCalled(name) ==
    /\ heap_type # None
    /\ ret' # <<>>
    /\ ret'[1].op = name

\* C27: after every call on a Heap each parent is <= (min) or >= (max) its
\* children and size is the number of stored elements; extract_top returns the
\* minimum (maximum) of the stored elements and removes one occurrence of it;
\* extract_top and peek on an empty heap raise IndexError and change nothing.
C27_HeapOrderAndExtract ==
    [][/\ HeapProperty(heap', heap_type')
       /\ heap_size' = Len(heap')
       /\ HeapCalled("insert") =>
             \A x \in Elements(heap') :
                 Occurrences(heap', x) =
                     Occurrences(heap, x) + (IF x = ret'[1].start THEN 1 ELSE 0)
       /\ (HeapCalled("extract_top") /\ heap_size > 0) =>
             /\ ~ret'[1].raised
             /\ ret'[1].result \in Elements(heap)
             /\ \A x \in Elements(heap) :
                   /\ ~Above(heap_type, x, ret'[1].result)
                   /\ Occurrences(heap', x) =
                         Occurrences(heap, x) - (IF x = ret'[1].result THEN 1 ELSE 0)
       /\ ((HeapCalled("extract_top") \/ HeapCalled("peek")) /\ heap_size = 0) =>
             /\ ret'[1].raised
             /\ heap' = heap
             /\ heap_size' = heap_size
             /\ heap_type' = heap_type]_vars

\* an extract_top has just taken a least value from a min heap of four inserted
\* elements, and left three in heap order
C27_Witness ==
    /\ heap_type = "min"
    /\ arr = <<>>
    /\ ret # <<>>
    /\ ret[1].op = "extract_top"
    /\ ~ret[1].raised
    /\ ret[1].result = 1
    /\ heap = <<1, 2, 3>>

\* a list in the order extraction gives for the type: ascending for "min"
InOrder(s, type) == \A i \in 1..(Len(s) - 1) : ~Above(type, s[i + 1], s[i])

\* two lists with the same elements, each as many times
SameElements(s, t) ==
    /\ Len(s) = Len(t)
    /\ \A x \in Elements(s) \cup Elements(t) : Occurrences(s, x) = Occurrences(t, x)

\* C28: after build_heap(arr) the heap property holds (over the elements of
\* arr), and extracting until the heap is empty yields the elements of arr in
\* ascending order for a min heap, descending for a max heap.
C28_BuildHeapSorts ==
    arr # <<>> =>
        /\ HeapProperty(heap, heap_type)
        /\ heap_size = Len(heap)
        /\ InOrder(sorted_arr, heap_type)
        /\ SameElements(sorted_arr \o heap, arr[1])
        /\ heap_size = 0 => SameElements(sorted_arr, arr[1])

\* the array of main() was built into a min heap and extracted to the end
C28_Witness ==
    /\ heap_type = "min"
    /\ arr = <<values>>
    /\ heap_size = 0
    /\ sorted_arr = <<1, 2, 3, 4, 5, 6, 7>>

-----------------------------------------------------------------------------
(* Claims on the hash table *)

\* the value a key -> value mapping gives for a key, None when it has none
Lookup(m, key) == IF key \in DOMAIN m THEN m[key] ELSE None

\* the number of entries of a table that have the key
EntriesOf(tbl, key) ==
    Cardinality({i \in DOMAIN Flatten(tbl) : Flatten(tbl)[i][1] = key})

\* the call that ret' reports was made on a HashTable
HtCalled(name) ==
    /\ ht_size # 0
    /\ ret' # <<>>
    /\ ret'[1].op = name

\* C29: through every sequence of insert, get and delete calls, resizes
\* included, get(k) returns what the mapping described by the calls gives for k
\* (None when it has no k); a key has one entry at most; delete(k) returns
\* True and removes k exactly when k is present, and returns False and leaves
\* the table unchanged otherwise.
C29_HashTableIsMap ==
    /\ [](ht_size # 0 =>
            \A k \in Keys :
                /\ get(TheTable, k) = Lookup(reference, k)
                /\ EntriesOf(table, k) = (IF k \in DOMAIN reference THEN 1 ELSE 0))
    /\ [][
          /\ HtCalled("get") =>
                /\ ret'[1].result = Lookup(reference, ret'[1].start)
                /\ <<ht_size', table', count'>> = <<ht_size, table, count>>
          /\ HtCalled("delete") =>
                /\ ret'[1].result = (ret'[1].start \in DOMAIN reference)
                /\ (~ret'[1].result) =>
                      <<ht_size', table', count'>> = <<ht_size, table, count>>
       ]_vars

\* a table has been resized up to size 8 and held five keys, two of them
\* colliding in every table; the second of the two has just been deleted, and
\* the first is still there
C29_Witness ==
    /\ ht_size = 8
    /\ ret # <<>>
    /\ ret[1].op = "delete"
    /\ ret[1].result = TRUE
    /\ ret[1].start = StrKey(<<98, 97>>)
    /\ \E b \in DOMAIN table : IndexIn(table[b], StrKey(<<97, 98>>), 1) # 0
    /\ count = 4

-----------------------------------------------------------------------------
(* Claims on the binary search tree *)

\* the values of a tree, left to right
RECURSIVE InorderValues(_)
InorderValues(node) ==
    IF node = <<>> THEN <<>>
    ELSE InorderValues(node[2]) \o <<node[1]>> \o InorderValues(node[3])

\* no value is twice in the tree
DistinctValues(node) ==
    \A i, j \in DOMAIN InorderValues(node) :
        i # j => InorderValues(node)[i] # InorderValues(node)[j]

\* C30: after any sequence of insert and delete calls with pairwise distinct
\* values, and on the empty tree, is_valid_bst() returns True.
C30_BuiltTreeIsValid ==
    (ret # <<>> /\ ret[1].op = "is_valid_bst" /\ DistinctValues(root)) => ret[1].result

\* the number of edges on the longest path from the root to a leaf, -1 for no tree
RECURSIVE Height(_)
Height(node) ==
    IF node = <<>> THEN -1 ELSE 1 + Max(Height(node[2]), Height(node[3]))

\* C31: on every tree reachable by insert and delete, inorder_traversal() and
\* get_height() with no argument terminate; inorder_traversal emits the stored
\* values, each node once, in ascending order, and get_height returns the
\* number of edges of the longest root-to-leaf path (-1 for the empty tree).
C31_TraversalAndHeightTerminate ==
    /\ (ret # <<>> /\ ret[1].op = "inorder_traversal") =>
          /\ ~ret[1].raised
          /\ ret[1].result = InorderValues(root)
          /\ \A i \in 1..(Len(ret[1].result) - 1) : ret[1].result[i] <= ret[1].result[i + 1]
    /\ (ret # <<>> /\ ret[1].op = "get_height") =>
          /\ ~ret[1].raised
          /\ ret[1].result = <<Height(root)>>

-----------------------------------------------------------------------------
(* Claims on what dijkstra returns *)

\* C32 as stated: for every start vertex, in the graph or not, dijkstra(start)
\* returns a pair (distances, paths) of two mappings.
C32_AlwaysPair ==
    (ret # <<>> /\ ret[1].op = "dijkstra") => ret[1].tuple

\* C32: dijkstra(start) returns a pair (distances, paths) of two mappings over
\* the vertices exactly when start is in the graph; for a start vertex that is
\* not in the graph it returns one empty mapping, which cannot be unpacked
\* into two values.
C32_PairWhenPresent ==
    (ret # <<>> /\ ret[1].op = "dijkstra") =>
        /\ ret[1].tuple <=> ret[1].start \in vertices
        /\ ret[1].tuple =>
              /\ DOMAIN ret[1].distances = vertices
              /\ DOMAIN ret[1].paths = vertices
        /\ ~ret[1].tuple => ret[1].distances = EmptyMap

\* dijkstra has returned for a start vertex that is not in a graph of two edges
C32_Witness ==
    /\ ret # <<>>
    /\ ret[1].op = "dijkstra"
    /\ ret[1].start \notin vertices
    /\ ~ret[1].tuple
    /\ Len(edges) = 2

-----------------------------------------------------------------------------
(* Claims on the augmenting path *)

\* the residual capacity of u -> v, 0 when the residual graph has no such entry
ResidualCapacity(res, u, v) ==
    IF u \in DOMAIN res /\ DHas(res[u], v) THEN DGet(res[u], v) ELSE 0

\* the vertices one edge of residual capacity > 0 away from a vertex of S
Step(res, S) ==
    {v \in DOMAIN res \cup Names : \E u \in S : ResidualCapacity(res, u, v) > 0}

\* the number of edges of a shortest path to t along edges of residual capacity
\* > 0, from the vertices of the set seen, whose latest layer is at distance d;
\* -1 when there is no path
RECURSIVE HopsFrom(_, _, _, _)
HopsFrom(res, seen, t, d) ==
    IF t \in seen THEN d
    ELSE IF Step(res, seen) \subseteq seen THEN -1
    ELSE HopsFrom(res, seen \cup Step(res, seen), t, d + 1)

\* the least residual capacity along a path
RECURSIVE Bottleneck(_, _)
Bottleneck(res, path) ==
    IF Len(path) = 2 THEN ResidualCapacity(res, path[1], path[2])
    ELSE LET rest == Bottleneck(res, Tail(path))
             first == ResidualCapacity(res, path[1], path[2])
         IN  IF first < rest THEN first ELSE rest

\* what the claim says of bfs_augmenting_path(s, t) on the residual graph res
AugmentingPathCorrect(res, s, t) ==
    LET r == bfs_augmenting_path(res, s, t)
        hops == HopsFrom(res, {s}, t, 0)
    IN  /\ ~r.found <=> hops = -1
        /\ ~r.found => (r.path = <<>> /\ r.min_capacity = 0)
        /\ r.found =>
              /\ r.path[1] = s
              /\ r.path[Len(r.path)] = t
              /\ \A i, j \in DOMAIN r.path : i # j => r.path[i] # r.path[j]
              /\ \A i \in 1..(Len(r.path) - 1) :
                    ResidualCapacity(res, r.path[i], r.path[i + 1]) > 0
              /\ Len(r.path) - 1 = hops
              /\ r.min_capacity = Bottleneck(res, r.path)
              /\ r.min_capacity > 0

\* C33: on every residual graph the search is run on (the one of each state of
\* the augmenting loop) and for every source # sink,
\* bfs_augmenting_path returns (None, 0) exactly when the sink cannot be
\* reached along edges of residual capacity > 0; otherwise a simple path from
\* source to sink along such edges, with the fewest edges, and the least
\* residual capacity along it, which is > 0.
C33_AugmentingPathShortest ==
    \A s, t \in DOMAIN residual_graph :
        (pc = "Augmenting" /\ s # t) => AugmentingPathCorrect(residual_graph, s, t)

\* after an augmentation the next path found runs over three edges at least and
\* its bottleneck is below the capacity of its first edge
C33_Witness ==
    /\ pc = "Augmenting"
    /\ augmentations >= 1
    /\ source # sink
    /\ LET r == bfs_augmenting_path(residual_graph, source, sink)
       IN  /\ r.found
           /\ Len(r.path) >= 4
           /\ r.min_capacity < ResidualCapacity(residual_graph, r.path[1], r.path[2])

-----------------------------------------------------------------------------
(* Claims on the order of bfs *)

\* the vertices the adjacency entries of the vertices of S lead to
Successors(S) ==
    UNION {{adj_list[u][i][1] : i \in DOMAIN adj_list[u]} : u \in S \cap DOMAIN adj_list}

\* the number of edges of a shortest path to v from the vertices of the set
\* seen, whose latest layer is at distance d (v is reachable from them)
RECURSIVE HopDistance(_, _, _)
HopDistance(seen, v, d) ==
    IF v \in seen \/ Successors(seen) \subseteq seen THEN d
    ELSE HopDistance(seen \cup Successors(seen), v, d + 1)

\* where v is first discovered by a traversal emitting order: the index of the
\* first emitted vertex with an adjacency entry to v, and the index of the
\* first such entry in that vertex's adjacency list
Discovery(order, v) ==
    LET k == CHOOSE k \in DOMAIN order :
                 /\ \E i \in DOMAIN adj_list[order[k]] : adj_list[order[k]][i][1] = v
                 /\ \A j \in 1..(k - 1) :
                        \A i \in DOMAIN adj_list[order[j]] : adj_list[order[j]][i][1] # v
        i == CHOOSE i \in DOMAIN adj_list[order[k]] :
                 /\ adj_list[order[k]][i][1] = v
                 /\ \A j \in 1..(i - 1) : adj_list[order[k]][j][1] # v
    IN  <<k, i>>

Earlier(a, b) == a[1] < b[1] \/ (a[1] = b[1] /\ a[2] < b[2])

\* the graph that the add_edge calls recorded in edges build on the vertex set
Rebuilt ==
    add_edges([directed |-> directed, vertices |-> vertices, edges |-> <<>>,
               adj_list |-> EmptyMap], edges)

\* C34: for a start vertex of the graph, bfs(start) emits start first, then
\* vertices in non-decreasing order of their hop distance from start, those at
\* equal distance in the order of their first discovery along the adjacency
\* lists; and it is the order bfs gives on a graph built anew by the same
\* add_edge calls.
C34_BfsOrder ==
    (ret # <<>> /\ ret[1].op = "bfs" /\ ret[1].start \in vertices) =>
        LET order == ret[1].result
            start == ret[1].start
        IN  /\ order # <<>>
            /\ order[1] = start
            /\ \A i, j \in DOMAIN order :
                  i < j => /\ HopDistance({start}, order[i], 0) <= HopDistance({start}, order[j], 0)
                           /\ i > 1 => Earlier(Discovery(order, order[i]), Discovery(order, order[j]))
            /\ order = bfs(Rebuilt, start).result

\* two vertices at distance 1 come out in the order of the adjacency list, which
\* is not the order of their names
C34_Witness ==
    /\ ret # <<>>
    /\ ret[1].op = "bfs"
    /\ ret[1].start = "A"
    /\ ret[1].result = <<"A", "C", "B">>
    /\ HopDistance({"A"}, "B", 0) = 1
    /\ HopDistance({"A"}, "C", 0) = 1

-----------------------------------------------------------------------------
(* Claims on a graph changed after MST(graph) *)

\* C35: whatever edges the owner adds to the graph between the construction of
\* MST(graph) and kruskal(), new vertices included, kruskal() does not raise and
\* every edge it returns has both endpoints among the vertices its DisjointSet
\* was built with.
C35_KruskalAfterAddEdge ==
    (ret # <<>> /\ ret[1].op = "kruskal") =>
        /\ ~ret[1].raised
        /\ \A i \in DOMAIN ret[1].mst_edges :
              /\ ret[1].mst_edges[i][1] \in {mst[1][j] : j \in DOMAIN mst[1]}
              /\ ret[1].mst_edges[i][2] \in {mst[1][j] : j \in DOMAIN mst[1]}

-----------------------------------------------------------------------------
(* Claims on the bookkeeping of the hash table *)

\* the keys stored in the buckets of a table
StoredKeys(tbl) == {Flatten(tbl)[i][1] : i \in DOMAIN Flatten(tbl)}

\* C36: for a HashTable of initial size >= 1, after every insert and delete
\* count equals the number of distinct keys stored in the buckets, no key is
\* stored twice, every stored key is in the bucket its hash gives under the
\* current size, and after every insert count / size is at most 0.7.
C36_CountAndBuckets ==
    ht_size # 0 =>
        /\ Len(table) = ht_size
        /\ count = Cardinality(StoredKeys(table))
        /\ Len(Flatten(table)) = Cardinality(StoredKeys(table))
        /\ \A b \in DOMAIN table : \A i \in DOMAIN table[b] :
              _hash_function(table[b][i][1], ht_size) + 1 = b
        /\ (ret # <<>> /\ ret[1].op = "ht_insert") => 10 * count <= 7 * ht_size

\* an insert has just doubled a table of size 2, and two keys that collide under
\* the new size share a bucket
C36_Witness ==
    /\ ht_size = 4
    /\ count = 2
    /\ ret # <<>>
    /\ ret[1].op = "ht_insert"
    /\ \E b \in DOMAIN table : Len(table[b]) = 2

-----------------------------------------------------------------------------
(* Claims on the linked list *)

\* the data of the nodes from the node current on, in list order
RECURSIVE DataFrom(_, _)
DataFrom(nodes, current) ==
    IF current = 0 THEN <<>>
    ELSE <<nodes[current].data>> \o DataFrom(nodes, nodes[current].next)

\* a sequence without its first element equal to key (itself when it has none)
RECURSIVE WithoutFirst(_, _)
WithoutFirst(seq, key) ==
    IF seq = <<>> THEN <<>>
    ELSE IF seq[1] = key THEN Tail(seq)
    ELSE <<seq[1]>> \o WithoutFirst(Tail(seq), key)

\* C37: through every sequence of insert_at_beginning, insert_at_end,
\* insert_after(node, data) with the node an earlier search returned (unlinked
\* since or not) and delete_node calls, get_size() is the number of nodes
\* reachable from head; and delete_node(key) removes the first node holding
\* key and nothing else, keeping the order of the others, and leaves the list
\* and the size as they are when no node holds key.
C37_SizeAndDelete ==
    /\ [](get_size(TheList) = Len(DataFrom(ll_nodes, ll_head)))
    /\ [][(ret' # <<>> /\ ret'[1].op = "delete_node") =>
             /\ DataFrom(ll_nodes', ll_head')
                    = WithoutFirst(DataFrom(ll_nodes, ll_head), ret'[1].start)
             /\ (search(TheList, ret'[1].start) = 0) => ll_size' = ll_size
         ]_vars

-----------------------------------------------------------------------------
(* Claims on the binary search tree with duplicates *)

\* the values of the nodes of a tree
ValuesOf(node) == {InorderValues(node)[i] : i \in DOMAIN InorderValues(node)}

\* the number of nodes of a tree that hold value
CountOf(node, value) ==
    Cardinality({i \in DOMAIN InorderValues(node) : InorderValues(node)[i] = value})

\* every node has smaller values to its left and no smaller value to its right
RECURSIVE Ordered(_)
Ordered(node) ==
    node = <<>> \/
        /\ \A v \in ValuesOf(node[2]) : v < node[1]
        /\ \A v \in ValuesOf(node[3]) : v >= node[1]
        /\ Ordered(node[2])
        /\ Ordered(node[3])

\* the call that ret' reports was made with value
BstCalled(name, value) == ret' # <<>> /\ ret'[1].op = name /\ ret'[1].start = value

-----------------------------------------------------------------------------
(* Claims on the binary tree *)

\* the places of the nodes of a tree, counted level by level from place i of
\* its root: the children of place i are at places 2i and 2i + 1
RECURSIVE Places(_, _)
Places(node, i) ==
    IF node = <<>> THEN {}
    ELSE {i} \cup Places(node[2], 2 * i) \cup Places(node[3], 2 * i + 1)

\* floor(log2 n) for n >= 1, -1 for n = 0
RECURSIVE Log2(_)
Log2(n) == IF n = 0 THEN -1 ELSE 1 + Log2(n \div 2)

\* C39: after n >= 0 insert calls the tree is filled in level order (every
\* level full except possibly the last, which is filled from the left), and
\* count_nodes() and height() with no argument terminate and return n and
\* floor(log2 n), 0 and -1 for the empty tree.
C39_LevelOrderCountHeight ==
    /\ Places(tree_root, 1) = 1..Nodes(tree_root)
    /\ (ret # <<>> /\ ret[1].op = "count_nodes") =>
          /\ ~ret[1].raised
          /\ ret[1].result = <<Nodes(tree_root)>>
    /\ (ret # <<>> /\ ret[1].op = "height") =>
          /\ ~ret[1].raised
          /\ ret[1].result = <<Log2(Nodes(tree_root))>>
====
